---- MODULE Spec2Model ----
(***************************************************************************)
(* Model of the TeslaNav backend's route core (backend/main.py):          *)
(*   POST /route                 resolve_and_optimize                      *)
(*   POST /route/optimize-order  optimize_stop_order                       *)
(* together with the helpers they call: get_google_key, geocode,           *)
(* search_places_along_route, text_search_place, get_directions,           *)
(* time_to_minutes and minutes_to_time.                                    *)
(*                                                                         *)
(* Python values are encoded as follows.  Optional[T] is << >> for None    *)
(* and << v >> for a value v.  A call that may raise returns a record      *)
(* [exc |-> BOOLEAN, val |-> ...].  Wall-clock texts ("09:15") and the      *)
(* 12-hour renderings ("9:00 AM") are TLA+ strings.  A provider's answer   *)
(* to one HTTP call is a record whose kind is "json" (a parsed body) or    *)
(* "raise" (timeout, transport error or a body that does not parse).       *)
(***************************************************************************)
EXTENDS Integers, Sequences, FiniteSets, TLC

\* Largest number of stops in a /route request.
MaxStops == 2

None == << >>
Some(v) == << v >>

\* Python truthiness of an Optional[str] / Optional[number].
TruthyStr(o) == o # None /\ o[1] # ""
TruthyNum(o) == o # None /\ o[1] # 0

Max(a, b) == IF a >= b THEN a ELSE b
Min(a, b) == IF a <= b THEN a ELSE b

Returned(v) == [exc |-> FALSE, val |-> v]
Raised == [exc |-> TRUE, val |-> None]

-----------------------------------------------------------------------------
(* class RouteStop: the fields and their defaults.                         *)

RouteStop(id, address) ==
    [id |-> id, address |-> address, label |-> None, notes |-> None,
     stopType |-> "specific", searchQuery |-> None,
     openTime |-> None, closeTime |-> None, dwellMinutes |-> 20,
     estimatedArrival |-> None, driveMinutesFromPrev |-> None,
     hasConflict |-> FALSE, latitude |-> None, longitude |-> None,
     distanceMeters |-> None]

\* pydantic's model_copy(update=...): a new value, the named fields replaced.
model_copy(stop, update) ==
    [f \in DOMAIN stop |-> IF f \in DOMAIN update THEN update[f] ELSE stop[f]]

-----------------------------------------------------------------------------
(* time_to_minutes and minutes_to_time.                                    *)

DigitVal(c) ==
    CASE c = "0" -> 0 [] c = "1" -> 1 [] c = "2" -> 2 [] c = "3" -> 3
      [] c = "4" -> 4 [] c = "5" -> 5 [] c = "6" -> 6 [] c = "7" -> 7
      [] c = "8" -> 8 [] c = "9" -> 9

\* int(s) for a string of decimal digits.
RECURSIVE IntOfDigits(_)
IntOfDigits(s) ==
    IF Len(s) = 0 THEN 0
    ELSE 10 * IntOfDigits(SubSeq(s, 1, Len(s) - 1))
         + DigitVal(SubSeq(s, Len(s), Len(s)))

\* Position of the ":" of t.split(":").
ColonAt(t) == CHOOSE p \in 1..Len(t) : SubSeq(t, p, p) = ":"

time_to_minutes(t) ==
    LET p == ColonAt(t)
        h == IntOfDigits(SubSeq(t, 1, p - 1))
        m == IntOfDigits(SubSeq(t, p + 1, Len(t)))
    IN  h * 60 + m

minutes_to_time(m) ==
    LET h    == (m \div 60) % 24
        mn   == m % 60
        ampm == IF h >= 12 THEN "PM" ELSE "AM"
        h12  == IF h % 12 = 0 THEN 12 ELSE h % 12
    IN  ToString(h12) \o ":" \o (IF mn < 10 THEN "0" ELSE "") \o ToString(mn)
        \o " " \o ampm

-----------------------------------------------------------------------------
(* Provider answers.  Coordinates are integers in units of 1/100 degree.   *)

Coord(lat, lng) == [lat |-> lat, lng |-> lng]

\* Coordinates the geocoding providers may answer with.
GeoPool == {Coord(3748, -12223)}

\* Google Geocoding API: a body with a status and results, or a failed call.
GoogleGeoAnswers ==
    {[kind |-> "json", status |-> "OK", results |-> <<c>>] : c \in GeoPool}
    \cup {[kind |-> "json", status |-> "ZERO_RESULTS", results |-> << >>],
          [kind |-> "raise", status |-> "", results |-> << >>]}

\* Nominatim: a list of results (keys lat, lon), or a failed call.
NominatimAnswers ==
    {[kind |-> "json", results |-> <<[lat |-> c.lat, lon |-> c.lng]>>] : c \in GeoPool}
    \cup {[kind |-> "json", results |-> << >>],
          [kind |-> "raise", results |-> << >>]}

\* Google Places text search.
PlacePool ==
    {[formatted_address |-> "12 Bean St", name |-> "Bean Cafe",
      geometry |-> [location |-> Coord(3750, -12220)]]}

PlacesAnswers ==
    {[kind |-> "json", status |-> "OK", results |-> <<p>>] : p \in PlacePool}
    \cup {[kind |-> "json", status |-> "ZERO_RESULTS", results |-> << >>],
          [kind |-> "raise", status |-> "", results |-> << >>]}

\* Google Routes API legs; the route the provider answers with has k legs.
LegA == [duration |-> "1800s", distanceMeters |-> 12330]
LegB == [duration |-> "95s", distanceMeters |-> 32310]
ProviderLegs(k) == [j \in 1..k |-> IF j % 2 = 1 THEN LegA ELSE LegB]

DirectionsAnswers(n) ==
    {[kind |-> "json", routes |-> <<[legs |-> ProviderLegs(k)]>>] : k \in 0..n}
    \cup {[kind |-> "json", routes |-> << >>],
          [kind |-> "raise", routes |-> << >>]}

-----------------------------------------------------------------------------
(* get_google_key                                                          *)

\* str.strip() on the header values of the model.
Strip(s) == IF s = " " THEN "" ELSE s

get_google_key(header_key, env_key) ==
    IF Strip(header_key) # "" THEN Strip(header_key) ELSE env_key

\* `x_google_maps_key or ""`
OrEmpty(o) == IF TruthyStr(o) THEN o[1] ELSE ""

-----------------------------------------------------------------------------
(* geocode: Google when a key is given, else (or on no result) Nominatim.  *)
(* The Google call is outside the try block: its failure propagates.       *)

\* Variant of geocode that gives up when a keyed Google call finds nothing.
geocode_primary_only(address, gkey, gAns, nAns) ==
    IF gkey # "" /\ gAns.kind = "raise"
    THEN Raised
    ELSE IF gkey # "" /\ gAns.status = "OK" /\ gAns.results # << >>
    THEN Returned(Some(gAns.results[1]))
    ELSE IF gkey = "" /\ nAns.kind = "json" /\ nAns.results # << >>
    THEN Returned(Some(Coord(nAns.results[1].lat, nAns.results[1].lon)))
    ELSE Returned(None)

geocode(address, gkey, gAns, nAns) ==
    IF gkey # "" /\ gAns.kind = "raise"
    THEN Raised
    ELSE IF gkey # "" /\ gAns.status = "OK" /\ gAns.results # << >>
    THEN Returned(Some(gAns.results[1]))
    ELSE IF nAns.kind = "json" /\ nAns.results # << >>
    THEN Returned(Some(Coord(nAns.results[1].lat, nAns.results[1].lon)))
    ELSE Returned(None)

\* Variant of geocode_calls in which a failed Google call is tried again.
geocode_calls_retrying(gkey, gAns) ==
    [google |-> IF gkey = "" THEN 0 ELSE IF gAns.kind = "raise" THEN 2 ELSE 1,
     nominatim |-> IF gkey # "" /\ (gAns.kind = "raise"
                                     \/ (gAns.status = "OK" /\ gAns.results # << >>))
                   THEN 0 ELSE 1]

\* The outbound calls one geocode() issues: [google, nominatim].
geocode_calls(gkey, gAns) ==
    [google |-> IF gkey # "" THEN 1 ELSE 0,
     nominatim |-> IF gkey # "" /\ (gAns.kind = "raise"
                                     \/ (gAns.status = "OK" /\ gAns.results # << >>))
                   THEN 0 ELSE 1]

-----------------------------------------------------------------------------
(* text_search_place and search_places_along_route                        *)

PlaceOf(query, place) ==
    [address |-> place.formatted_address, name |-> place.name,
     lat |-> place.geometry.location.lat, lng |-> place.geometry.location.lng]

\* The shared tail of both searches: r.json(), status OK and a first result.
PlaceResult(query, ans) ==
    IF ans.kind = "raise" THEN Raised
    ELSE IF ans.status = "OK" /\ ans.results # << >>
    THEN Returned(Some(PlaceOf(query, ans.results[1])))
    ELSE Returned(None)

text_search_place(query, gkey, ans) ==
    IF gkey = "" THEN Returned(None) ELSE PlaceResult(query, ans)

\* a * b as <<thousands, units below 1000>>: the products pass 2^31.
Wide(a, b) ==
    LET x == (a \div 1000) * b
        y == (a % 1000) * b
    IN  <<x + (y \div 1000), y % 1000>>

WideLeq(p, q) == p[1] < q[1] \/ (p[1] = q[1] /\ p[2] <= q[2])

\* The largest r in lo..hi with r * r <= n (n a Wide number), by bisection.
RECURSIVE ISqrtIn(_, _, _)
ISqrtIn(n, lo, hi) ==
    IF lo >= hi THEN lo
    ELSE LET mid == (lo + hi + 1) \div 2
         IN  IF WideLeq(Wide(mid, mid), n) THEN ISqrtIn(n, mid, hi)
             ELSE ISqrtIn(n, lo, mid - 1)

\* Variant of SearchRadius without the lower clamp.
SearchRadius_no_floor(geo_a, geo_b) ==
    LET dlat == geo_a.lat - geo_b.lat
        dlng == geo_a.lng - geo_b.lng
        d2   == dlat * dlat + dlng * dlng
    IN  IF d2 >= 8117 THEN 50000
        ELSE ISqrtIn(Wide(308025, d2), 0, 50000)

\* int(max(5000, min(50000, dist_deg * 111_000 / 2))) with dist_deg the
\* Euclidean distance in degrees.  Coordinates are in 1/100 degree, so the
\* unclamped value is 555 * sqrt(dlat^2 + dlng^2), the square root of
\* 308025 * (dlat^2 + dlng^2); it is below 5000 up to a squared distance of
\* 81 and reaches 50000 from 8117 on.
SearchRadius(geo_a, geo_b) ==
    LET dlat == geo_a.lat - geo_b.lat
        dlng == geo_a.lng - geo_b.lng
        d2   == dlat * dlat + dlng * dlng
    IN  IF d2 >= 8117 THEN 50000
        ELSE IF d2 <= 81 THEN 5000
        ELSE ISqrtIn(Wide(308025, d2), 5000, 50000)

\* ans: the answers of the calls the search may issue,
\* [gA, nA, gB, nB: geocode of the two corridor endpoints, places: the search].
search_places_along_route(query, origin_addr, destination_addr, gkey, prev_stop_addr, next_stop_addr, ans) ==
    IF gkey = "" THEN Returned(None)
    ELSE
    LET point_a == IF TruthyStr(prev_stop_addr) THEN prev_stop_addr[1] ELSE origin_addr
        point_b == IF TruthyStr(next_stop_addr) THEN next_stop_addr[1] ELSE destination_addr
        geo_a   == geocode(point_a, gkey, ans.gA, ans.nA)
        geo_b   == geocode(point_b, gkey, ans.gB, ans.nB)
    IN  IF geo_a.exc \/ geo_b.exc THEN Raised
        ELSE IF geo_a.val = None \/ geo_b.val = None
        THEN text_search_place(query, gkey, ans.places)
        ELSE PlaceResult(query, ans.places)

\* The outbound calls one search issues: [google, nominatim, places].
search_calls(gkey, ans) ==
    IF gkey = "" THEN [google |-> 0, nominatim |-> 0, places |-> 0]
    ELSE LET a == geocode_calls(gkey, ans.gA)
             b == geocode_calls(gkey, ans.gB)
         IN  [google |-> a.google + b.google,
              nominatim |-> a.nominatim + b.nominatim,
              places |-> IF ans.gA.kind = "raise" \/ ans.gB.kind = "raise" THEN 0 ELSE 1]

-----------------------------------------------------------------------------
(* get_directions                                                          *)

\* class RoutePreferences (the four flags).
RoutePreferences(scenic, avoidHighways, avoidTolls, avoidFerries) ==
    [scenic |-> scenic, avoidHighways |-> avoidHighways,
     avoidTolls |-> avoidTolls, avoidFerries |-> avoidFerries]

\* Variant of RouteModifiers that maps each flag to its own modifier only.
RouteModifiers_flag_by_flag(prefs) ==
    IF prefs = None THEN {}
    ELSE (IF prefs[1].avoidHighways THEN {"avoidHighways"} ELSE {})
         \cup (IF prefs[1].avoidTolls THEN {"avoidTolls"} ELSE {})
         \cup (IF prefs[1].avoidFerries THEN {"avoidFerries"} ELSE {})

\* route_modifiers: the set of modifier keys set to True.
RouteModifiers(prefs) ==
    IF prefs = None THEN {}
    ELSE (IF prefs[1].avoidHighways \/ prefs[1].scenic THEN {"avoidHighways"} ELSE {})
         \cup (IF prefs[1].avoidTolls THEN {"avoidTolls"} ELSE {})
         \cup (IF prefs[1].avoidFerries THEN {"avoidFerries"} ELSE {})

\* The JSON body of the computeRoutes call; intermediates and routeModifiers
\* are present only when non-empty.
DirectionsBody(origin_addr, destination, waypoints, prefs) ==
    [origin |-> origin_addr, destination |-> destination,
     intermediates |-> waypoints, routeModifiers |-> RouteModifiers(prefs)]

\* s.rstrip("s")
RECURSIVE RStripS(_)
RStripS(s) ==
    IF Len(s) > 0 /\ SubSeq(s, Len(s), Len(s)) = "s"
    THEN RStripS(SubSeq(s, 1, Len(s) - 1)) ELSE s

\* round(dist_m / 1000, 1), in tenths of a kilometre (dist_m % 100 # 50).
RoundKm(dist_m) == (dist_m + 50) \div 100

LegOf(leg) ==
    [duration_min |-> IntOfDigits(RStripS(leg.duration)) \div 60,
     distance_km |-> RoundKm(leg.distanceMeters)]

RECURSIVE SumDurations(_)
SumDurations(legs) ==
    IF legs = << >> THEN 0 ELSE legs[1].duration_min + SumDurations(Tail(legs))

RECURSIVE SumMeters(_)
SumMeters(legs) ==
    IF legs = << >> THEN 0 ELSE legs[1].distanceMeters + SumMeters(Tail(legs))

RECURSIVE SumSeconds(_)
SumSeconds(legs) ==
    IF legs = << >> THEN 0
    ELSE IntOfDigits(RStripS(legs[1].duration)) + SumSeconds(Tail(legs))

RECURSIVE SumKm(_)
SumKm(legs) ==
    IF legs = << >> THEN 0 ELSE legs[1].distance_km + SumKm(Tail(legs))

\* Variant of get_directions whose total duration is the floor of the
\* summed seconds.
get_directions_floor_of_sum(origin_addr, destination, waypoints, gkey, prefs, ans) ==
    IF gkey = "" THEN Returned(None)
    ELSE IF ans.kind = "raise" THEN Raised
    ELSE IF ans.routes = << >> THEN Returned(None)
    ELSE LET route == ans.routes[1]
             legs  == [j \in 1..Len(route.legs) |-> LegOf(route.legs[j])]
         IN  Returned(Some([legs |-> legs,
                            total_duration_min |-> SumSeconds(route.legs) \div 60,
                            total_distance_km |-> RoundKm(SumMeters(route.legs))]))

\* Variant of get_directions whose total distance adds up the rounded legs.
get_directions_sum_of_rounded(origin_addr, destination, waypoints, gkey, prefs, ans) ==
    IF gkey = "" THEN Returned(None)
    ELSE IF ans.kind = "raise" THEN Raised
    ELSE IF ans.routes = << >> THEN Returned(None)
    ELSE LET route == ans.routes[1]
             legs  == [j \in 1..Len(route.legs) |-> LegOf(route.legs[j])]
         IN  Returned(Some([legs |-> legs,
                            total_duration_min |-> SumDurations(legs),
                            total_distance_km |-> SumKm(legs)]))

get_directions(origin_addr, destination, waypoints, gkey, prefs, ans) ==
    IF gkey = "" THEN Returned(None)
    ELSE IF ans.kind = "raise" THEN Raised
    ELSE IF ans.routes = << >> THEN Returned(None)
    ELSE LET route == ans.routes[1]
             legs  == [j \in 1..Len(route.legs) |-> LegOf(route.legs[j])]
         IN  Returned(Some([legs |-> legs,
                            total_duration_min |-> SumDurations(legs),
                            total_distance_km |-> RoundKm(SumMeters(route.legs))]))

\* Tenths of a kilometre whose float product with 1000 falls just below the
\* integer (32.3 * 1000 = 32299.999...), for distances under 100 km.
FloatBelow == {323, 641, 646, 651}

\* int(leg["distance_km"] * 1000)
IntMeters(distance_km) ==
    distance_km * 100 - (IF distance_km \in FloatBelow THEN 1 ELSE 0)

-----------------------------------------------------------------------------
(* State.                                                                  *)

VARIABLES
    endpoint,            \* "route" or "optimize-order"
    body,                \* the request body (RouteRequest / OptimizeRequest)
    x_google_maps_key,   \* the X-Google-Maps-Key header, None when absent
    GOOGLE_KEY_ENV,      \* the module-level key read from the environment
    pc,                  \* position of the handler
    i,                   \* index of the running for-loop
    resolved_stops,      \* resolve_and_optimize: the list being built
    pending,             \* asyncio.gather: the tasks still awaiting geocode()
    gathered,            \* asyncio.gather: the tasks' results, by input index
    directions,          \* resolve_and_optimize: result of get_directions
    current_time,        \* the scheduler's clock
    scheduled,           \* whether the conflict-detection loop was entered
    response,            \* the HTTP response, None while the handler runs
    calls,               \* outbound calls issued while serving the request
    stops,               \* optimize_stop_order: the local list
    origin_coords,       \* optimize_stop_order
    remaining,           \* optimize_stop_order
    ordered,             \* optimize_stop_order
    cur,                 \* optimize_stop_order: (cur_lat, cur_lng)
    deterministic,       \* whether the providers are deterministic stubs
    stub,                \* the answers the stubs have given, by request
    run,                 \* which invocation of the request is being served
    first_response,      \* the response of the first invocation
    args,                \* a helper called on its own: its arguments
    sent,                \* a helper called on its own: the requests it sent
    result               \* a helper called on its own: what it returned

reqVars   == <<endpoint, body, x_google_maps_key, GOOGLE_KEY_ENV, deterministic>>
routeVars == <<i, resolved_stops, directions, current_time, scheduled>>
fanVars   == <<pending, gathered>>
orderVars == <<stops, origin_coords, remaining, ordered, cur>>
twiceVars == <<run, first_response>>
unitVars  == <<args, sent, result>>
vars == <<reqVars, routeVars, fanVars, orderVars, twiceVars, unitVars,
          pc, response, calls, stub>>

NoCalls == [google |-> 0, nominatim |-> 0, places |-> 0, directions |-> 0]

\* The stubs' memory, one table of <<request, answer>> pairs per provider.
NoStub == [google |-> {}, nominatim |-> {}, places |-> {}, directions |-> {}]

\* A deterministic stub answers a request it has seen before the same way:
\* `new` (the <<request, answer>> pairs of one step) agrees with the table.
Fits(table, new) ==
    deterministic =>
        \A p \in new : \A q \in table \cup new : p[1] = q[1] => p[2] = q[2]

Learn(table, new) == IF deterministic THEN table \cup new ELSE table

\* The answer set of a call, a single placeholder when the call is not issued.
AnswersIf(issued, answers, placeholder) ==
    IF issued THEN answers ELSE {placeholder}

NoGeoAnswer == [kind |-> "raise", status |-> "", results |-> << >>]
NoNomAnswer == [kind |-> "raise", results |-> << >>]
NoDirAnswer == [kind |-> "raise", routes |-> << >>]
NoPlacesAnswer == [kind |-> "raise", status |-> "", results |-> << >>]

\* Whether geocode() goes on to Nominatim after Google answered gAns.
NeedsNominatim(gkey, gAns) == geocode_calls(gkey, gAns).nominatim = 1

-----------------------------------------------------------------------------
(* Requests.                                                               *)

IdOf(k) == "s" \o ToString(k)

StopKinds ==
    {"plain", "window", "search", "labelled", "noquery", "located", "equator"}

MakeStop(kind, id) ==
    CASE kind = "plain" ->
           RouteStop(id, "1 Main St")
      [] kind = "window" ->
           model_copy(RouteStop(id, "2 Oak Ave"),
                      [openTime |-> Some("09:00"), closeTime |-> Some("09:15")])
      [] kind = "search" ->
           model_copy(RouteStop(id, "somewhere"),
                      [stopType |-> "search", searchQuery |-> Some("coffee")])
      [] kind = "labelled" ->
           model_copy(RouteStop(id, "anywhere"),
                      [stopType |-> "search", searchQuery |-> Some("fuel"),
                       label |-> Some("Fill up"), notes |-> Some("cheap"),
                       openTime |-> Some("13:05"), dwellMinutes |-> 0])
      [] kind = "noquery" ->
           model_copy(RouteStop(id, "nowhere"), [stopType |-> "search"])
      [] kind = "located" ->
           model_copy(RouteStop(id, "3 Elm Rd"),
                      [latitude |-> Some(3700), longitude |-> Some(-12200),
                       closeTime |-> Some("08:10"), dwellMinutes |-> 45])
      [] kind = "equator" ->
           model_copy(RouteStop(id, "4 Line Rd"),
                      [latitude |-> Some(0), longitude |-> Some(-7850)])

\* The stop lists of up to MaxStops stops of the given kinds, ids by position.
StopListsOf(kindset) ==
    UNION {{[k \in 1..n |-> MakeStop(kinds[k], IdOf(k))] : kinds \in [1..n -> kindset]}
           : n \in 0..MaxStops}

StopLists == StopListsOf(StopKinds)

\* (origin, preferences) of a request: both omitted, or both given.
Envelopes ==
    {[origin |-> None, preferences |-> None],
     [origin |-> Some("Home"),
      preferences |-> Some(RoutePreferences(TRUE, FALSE, FALSE, FALSE))]}

\* (header, environment) pairs: no key at all, or a key sent by the client.
KeyConfigs == {[hdr |-> None, env |-> ""], [hdr |-> Some("hk"), env |-> ""]}

-----------------------------------------------------------------------------
(* resolve_and_optimize: the locals computed on entry.                     *)

gkey == get_google_key(OrEmpty(x_google_maps_key), GOOGLE_KEY_ENV)
origin == IF TruthyStr(body.origin) THEN body.origin[1] ELSE body.stops[1].address
final_dest == body.stops[Len(body.stops)].address
prefs == body.preferences

Respond(status, out_stops, out_directions) ==
    /\ response' = Some([status |-> status, stops |-> out_stops,
                         directions |-> out_directions])
    /\ pc' = "done"

\* An exception leaves the handler: global_exception_handler answers 500.
Abort == Respond(500, << >>, None)

\* Variant of RouteBegin that answers an empty stop list with an empty route.
RouteBegin_accepts_empty ==
    /\ endpoint = "route" /\ pc = "start"
    /\ IF body.stops = << >>
       THEN /\ Respond(200, << >>, None)
            /\ UNCHANGED <<i, resolved_stops>>
       ELSE /\ pc' = "resolve"
            /\ i' = 1
            /\ resolved_stops' = << >>
            /\ UNCHANGED response
    /\ UNCHANGED <<reqVars, unitVars, directions, current_time, scheduled, fanVars,
                   orderVars, twiceVars, calls, stub>>

\* Variant of RouteBegin whose list outlives the invocation (a module-level
\* list that is appended to and never emptied).
RouteBegin_keeps_list ==
    /\ endpoint = "route" /\ pc = "start"
    /\ IF body.stops = << >>
       THEN /\ Respond(400, << >>, None)
            /\ UNCHANGED <<i, resolved_stops>>
       ELSE /\ pc' = "resolve"
            /\ i' = 1
            /\ UNCHANGED <<resolved_stops, response>>
    /\ UNCHANGED <<reqVars, unitVars, directions, current_time, scheduled, fanVars,
                   orderVars, twiceVars, calls, stub>>

RouteBegin ==
    /\ endpoint = "route" /\ pc = "start"
    /\ IF body.stops = << >>
       THEN /\ Respond(400, << >>, None)
            /\ UNCHANGED <<i, resolved_stops>>
       ELSE /\ pc' = "resolve"
            /\ i' = 1
            /\ resolved_stops' = << >>
            /\ UNCHANGED response
    /\ UNCHANGED <<reqVars, unitVars, directions, current_time, scheduled, fanVars,
                   orderVars, twiceVars, calls, stub>>

(* Phase 1: resolve search-type stops, one stop per loop iteration.        *)

NoteFor(query) == "Could not find '" \o query \o "' along route - using as-is"

\* Variants of ResolvedStop with a slip in them: a failed search that leaves
\* no note, and a resolved stop that always takes the place's name.
ResolvedStop_silent(stop, place) ==
    IF place # None
    THEN model_copy(stop, [address |-> place[1].address,
                           label |-> IF TruthyStr(stop.label) THEN stop.label
                                     ELSE Some(place[1].name),
                           stopType |-> "resolved"])
    ELSE stop

ResolvedStop_place_name(stop, place) ==
    IF place # None
    THEN model_copy(stop, [address |-> place[1].address,
                           label |-> Some(place[1].name),
                           stopType |-> "resolved"])
    ELSE model_copy(stop, [notes |-> Some(NoteFor(stop.searchQuery[1]))])

\* The stop appended for a search stop, given what the search returned.
ResolvedStop(stop, place) ==
    IF place # None
    THEN model_copy(stop, [address |-> place[1].address,
                           label |-> IF TruthyStr(stop.label) THEN stop.label
                                     ELSE Some(place[1].name),
                           stopType |-> "resolved"])
    ELSE model_copy(stop, [notes |-> Some(NoteFor(stop.searchQuery[1]))])

\* The request of the places call that follows the two endpoint geocodes.
PlacesKey(query, geo_a, geo_b) ==
    IF geo_a = None \/ geo_b = None THEN <<query, "text">>
    ELSE <<query, "biased",
           ToString(geo_a[1].lat + geo_b[1].lat), ToString(geo_a[1].lng + geo_b[1].lng),
           ToString(SearchRadius(geo_a[1], geo_b[1]))>>

ResolveStop ==
    /\ endpoint = "route" /\ pc = "resolve" /\ i <= Len(body.stops)
    /\ LET stop      == body.stops[i]
           searching == stop.stopType = "search" /\ TruthyStr(stop.searchQuery)
           calling   == searching /\ gkey # ""
           prev_addr == IF i > 1 THEN body.stops[i - 1].address ELSE origin
           next_addr == IF i < Len(body.stops) THEN body.stops[i + 1].address
                        ELSE final_dest
       IN  \E gA \in AnswersIf(calling, GoogleGeoAnswers, NoGeoAnswer),
              gB \in AnswersIf(calling, GoogleGeoAnswers, NoGeoAnswer) :
           \E nA \in AnswersIf(calling /\ NeedsNominatim(gkey, gA), NominatimAnswers, NoNomAnswer),
              nB \in AnswersIf(calling /\ NeedsNominatim(gkey, gB), NominatimAnswers, NoNomAnswer) :
           \E pl \in AnswersIf(calling /\ gA.kind # "raise" /\ gB.kind # "raise",
                               PlacesAnswers, NoPlacesAnswer) :
           LET ans   == [gA |-> gA, nA |-> nA, gB |-> gB, nB |-> nB, places |-> pl]
               place == search_places_along_route(stop.searchQuery[1], origin, final_dest,
                            gkey, Some(prev_addr), Some(next_addr), ans)
               made  == search_calls(gkey, ans)
               newG  == {<<<<prev_addr>>, gA>>, <<<<next_addr>>, gB>>}
               newN  == (IF NeedsNominatim(gkey, gA) THEN {<<<<prev_addr>>, nA>>} ELSE {})
                        \cup (IF NeedsNominatim(gkey, gB) THEN {<<<<next_addr>>, nB>>} ELSE {})
               newP  == IF made.places = 1
                        THEN {<<PlacesKey(stop.searchQuery[1],
                                          geocode(prev_addr, gkey, gA, nA).val,
                                          geocode(next_addr, gkey, gB, nB).val), pl>>}
                        ELSE {}
           IN  IF ~ searching
               THEN /\ resolved_stops' = Append(resolved_stops, stop)
                    /\ i' = i + 1
                    /\ UNCHANGED <<pc, response, calls, stub>>
               ELSE /\ calling => Fits(stub.google, newG) /\ Fits(stub.nominatim, newN)
                                  /\ Fits(stub.places, newP)
                    /\ stub' = IF calling
                               THEN [stub EXCEPT !.google = Learn(@, newG),
                                                 !.nominatim = Learn(@, newN),
                                                 !.places = Learn(@, newP)]
                               ELSE stub
                    /\ calls' = [calls EXCEPT !.google = @ + made.google,
                                              !.nominatim = @ + made.nominatim,
                                              !.places = @ + made.places]
                    /\ IF place.exc
                       THEN Abort /\ UNCHANGED <<i, resolved_stops>>
                       ELSE /\ resolved_stops' = Append(resolved_stops,
                                                        ResolvedStop(stop, place.val))
                            /\ i' = i + 1
                            /\ UNCHANGED <<pc, response>>
    /\ UNCHANGED <<reqVars, unitVars, directions, current_time, scheduled, fanVars,
                   orderVars, twiceVars>>

-----------------------------------------------------------------------------
(* Phase 1b: asyncio.gather over geocode_stop(s) for s in resolved_stops.  *)
(* A task whose stop passes the coordinate test returns without awaiting;  *)
(* the others await geocode() and complete in any order.                   *)

HasCoords(stop) == TruthyNum(stop.latitude) /\ TruthyNum(stop.longitude)

\* Variant of WithCoords that leaves a note on a stop it could not locate.
WithCoords_or_note(stop, geo) ==
    IF geo # None
    THEN model_copy(stop, [latitude |-> Some(geo[1].lat), longitude |-> Some(geo[1].lng)])
    ELSE model_copy(stop, [notes |-> Some("Could not locate")])

\* geocode_stop / ensure_coords after geocode() returned geo.
WithCoords(stop, geo) ==
    IF geo # None
    THEN model_copy(stop, [latitude |-> Some(geo[1].lat), longitude |-> Some(geo[1].lng)])
    ELSE stop

StartGeocode ==
    /\ endpoint = "route" /\ pc = "resolve" /\ i > Len(body.stops)
    /\ gathered' = resolved_stops
    /\ pending' = {k \in 1..Len(resolved_stops) : ~ HasCoords(resolved_stops[k])}
    /\ pc' = "geocode"
    /\ UNCHANGED <<reqVars, unitVars, routeVars, orderVars, twiceVars, response, calls, stub>>

GeocodeStop(k) ==
    /\ endpoint = "route" /\ pc = "geocode" /\ k \in pending
    /\ \E gAns \in AnswersIf(gkey # "", GoogleGeoAnswers, NoGeoAnswer) :
       \E nAns \in AnswersIf(NeedsNominatim(gkey, gAns), NominatimAnswers, NoNomAnswer) :
       LET stop == gathered[k]
           geo  == geocode(stop.address, gkey, gAns, nAns)
           made == geocode_calls(gkey, gAns)
           newG == IF made.google = 1 THEN {<<<<stop.address>>, gAns>>} ELSE {}
           newN == IF made.nominatim = 1 THEN {<<<<stop.address>>, nAns>>} ELSE {}
       IN  /\ Fits(stub.google, newG) /\ Fits(stub.nominatim, newN)
           /\ stub' = [stub EXCEPT !.google = Learn(@, newG), !.nominatim = Learn(@, newN)]
           /\ calls' = [calls EXCEPT !.google = @ + made.google,
                                     !.nominatim = @ + made.nominatim]
           /\ IF geo.exc
              THEN Abort /\ UNCHANGED fanVars
              ELSE /\ gathered' = [gathered EXCEPT ![k] = WithCoords(stop, geo.val)]
                   /\ pending' = pending \ {k}
                   /\ UNCHANGED <<pc, response>>
    /\ UNCHANGED <<reqVars, unitVars, routeVars, orderVars, twiceVars>>

\* The gather is joined: the results replace resolved_stops, in input order.
JoinGeocode ==
    /\ endpoint = "route" /\ pc = "geocode" /\ pending = {}
    /\ resolved_stops' = gathered
    /\ pc' = "directions"
    /\ UNCHANGED <<reqVars, unitVars, i, directions, current_time, scheduled, fanVars,
                   orderVars, twiceVars, response, calls, stub>>

-----------------------------------------------------------------------------
(* Phase 2: directions, with the resolved addresses as waypoints.          *)

\* Variant of GetDirections that routes through the addresses of the
\* request instead of those of the resolved stops.
GetDirections_from_request ==
    /\ endpoint = "route" /\ pc = "directions"
    /\ LET n == Len(resolved_stops)
           waypoint_addrs == IF n > 1 THEN [k \in 1..(n - 1) |-> body.stops[k].address]
                             ELSE << >>
           dest_addr == body.stops[n].address
       IN  \E ans \in AnswersIf(gkey # "", DirectionsAnswers(n), NoDirAnswer) :
           LET r   == get_directions(origin, dest_addr, waypoint_addrs, gkey, prefs, ans)
               new == IF gkey # ""
                      THEN {<<DirectionsBody(origin, dest_addr, waypoint_addrs, prefs), ans>>}
                      ELSE {}
           IN  /\ Fits(stub.directions, new)
               /\ stub' = [stub EXCEPT !.directions = Learn(@, new)]
               /\ calls' = [calls EXCEPT !.directions = @ + (IF gkey # "" THEN 1 ELSE 0)]
               /\ IF r.exc
                  THEN Abort /\ UNCHANGED directions
                  ELSE /\ directions' = r.val
                       /\ pc' = "attach"
                       /\ UNCHANGED response
    /\ UNCHANGED <<reqVars, unitVars, i, resolved_stops, current_time, scheduled, fanVars,
                   orderVars, twiceVars>>

GetDirections ==
    /\ endpoint = "route" /\ pc = "directions"
    /\ LET n == Len(resolved_stops)
           waypoint_addrs == IF n > 1 THEN [k \in 1..(n - 1) |-> resolved_stops[k].address]
                             ELSE << >>
           dest_addr == resolved_stops[n].address
       IN  \E ans \in AnswersIf(gkey # "", DirectionsAnswers(n), NoDirAnswer) :
           LET r   == get_directions(origin, dest_addr, waypoint_addrs, gkey, prefs, ans)
               new == IF gkey # ""
                      THEN {<<DirectionsBody(origin, dest_addr, waypoint_addrs, prefs), ans>>}
                      ELSE {}
           IN  /\ Fits(stub.directions, new)
               /\ stub' = [stub EXCEPT !.directions = Learn(@, new)]
               /\ calls' = [calls EXCEPT !.directions = @ + (IF gkey # "" THEN 1 ELSE 0)]
               /\ IF r.exc
                  THEN Abort /\ UNCHANGED directions
                  ELSE /\ directions' = r.val
                       /\ pc' = "attach"
                       /\ UNCHANGED response
    /\ UNCHANGED <<reqVars, unitVars, i, resolved_stops, current_time, scheduled, fanVars,
                   orderVars, twiceVars>>

-----------------------------------------------------------------------------
(* Phase 3: attach each leg's drive time and distance to the stop at the   *)
(* same index; then decide whether the conflict detection runs.            *)

\* Variants of AttachLegsTo with a slip in them.
AttachLegsTo_truncating(list, dirs) ==
    IF dirs # None /\ dirs[1].legs # << >>
    THEN [k \in 1..Min(Len(list), Len(dirs[1].legs)) |->
            model_copy(list[k],
                [driveMinutesFromPrev |-> Some(dirs[1].legs[k].duration_min),
                 distanceMeters |-> Some(IntMeters(dirs[1].legs[k].distance_km))])]
    ELSE list

AttachLegsTo_zero_when_missing(list, dirs) ==
    [k \in 1..Len(list) |->
        IF dirs # None /\ k <= Len(dirs[1].legs)
        THEN model_copy(list[k],
                 [driveMinutesFromPrev |-> Some(dirs[1].legs[k].duration_min),
                  distanceMeters |-> Some(IntMeters(dirs[1].legs[k].distance_km))])
        ELSE model_copy(list[k],
                 [driveMinutesFromPrev |-> Some(0), distanceMeters |-> Some(0)])]

\* Variant of AttachLegsTo that gives stop k the leg before its own.
AttachLegsTo_shifted(list, dirs) ==
    IF dirs # None /\ dirs[1].legs # << >>
    THEN [k \in 1..Len(list) |->
            IF k > 1 /\ k - 1 <= Len(dirs[1].legs)
            THEN model_copy(list[k],
                     [driveMinutesFromPrev |-> Some(dirs[1].legs[k - 1].duration_min),
                      distanceMeters |-> Some(IntMeters(dirs[1].legs[k - 1].distance_km))])
            ELSE list[k]]
    ELSE list

AttachLegsTo(list, dirs) ==
    IF dirs # None /\ dirs[1].legs # << >>
    THEN [k \in 1..Len(list) |->
            IF k <= Len(dirs[1].legs)
            THEN model_copy(list[k],
                     [driveMinutesFromPrev |-> Some(dirs[1].legs[k].duration_min),
                      distanceMeters |-> Some(IntMeters(dirs[1].legs[k].distance_km))])
            ELSE list[k]]
    ELSE list

has_windows(list) ==
    \E k \in 1..Len(list) : TruthyStr(list[k].openTime) \/ TruthyStr(list[k].closeTime)

RunsScheduler_windows_only(list, dirs) == has_windows(list)

\* `if has_windows and directions`
RunsScheduler(list, dirs) == has_windows(list) /\ dirs # None

\* Variant of AttachLegs that sets the two fields on the stop objects
\* themselves: a stop that phase 1 appended as it was is the request's own
\* object, so the request changes with it.
AttachLegs_in_place ==
    /\ endpoint = "route" /\ pc = "attach"
    /\ resolved_stops' = AttachLegsTo(resolved_stops, directions)
    /\ body' = [body EXCEPT !.stops =
                   [k \in 1..Len(body.stops) |->
                       IF resolved_stops[k] = body.stops[k]
                       THEN resolved_stops'[k] ELSE body.stops[k]]]
    /\ IF RunsScheduler(resolved_stops', directions)
       THEN /\ pc' = "schedule"
            /\ i' = 1
            /\ current_time' = 8 * 60
            /\ scheduled' = TRUE
       ELSE /\ pc' = "respond"
            /\ UNCHANGED <<i, current_time, scheduled>>
    /\ UNCHANGED <<endpoint, x_google_maps_key, GOOGLE_KEY_ENV, deterministic,
                   unitVars, directions, fanVars, orderVars, twiceVars, response,
                   calls, stub>>

AttachLegs ==
    /\ endpoint = "route" /\ pc = "attach"
    /\ resolved_stops' = AttachLegsTo(resolved_stops, directions)
    /\ IF RunsScheduler(resolved_stops', directions)
       THEN /\ pc' = "schedule"
            /\ i' = 1
            /\ current_time' = 8 * 60
            /\ scheduled' = TRUE
       ELSE /\ pc' = "respond"
            /\ UNCHANGED <<i, current_time, scheduled>>
    /\ UNCHANGED <<reqVars, unitVars, directions, fanVars, orderVars, twiceVars, response,
                   calls, stub>>

-----------------------------------------------------------------------------
(* Phase 4: time-window conflict detection, one stop per loop iteration.   *)

DriveOf(stop) ==
    IF TruthyNum(stop.driveMinutesFromPrev) THEN stop.driveMinutesFromPrev[1] ELSE 0

OpenMin(stop) ==
    IF TruthyStr(stop.openTime) THEN time_to_minutes(stop.openTime[1]) ELSE 0

CloseMin(stop) ==
    IF TruthyStr(stop.closeTime) THEN time_to_minutes(stop.closeTime[1]) ELSE 23 * 60 + 59

visit_start_no_wait(stop, clock) == clock + DriveOf(stop)

\* Variant of visit_start that starts every visit when the window opens.
visit_start_at_opening(stop, clock) == OpenMin(stop)

visit_start(stop, clock) == Max(clock + DriveOf(stop), OpenMin(stop))

conflict(stop, clock) == visit_start(stop, clock) + stop.dwellMinutes > CloseMin(stop)

ScheduleStop ==
    /\ endpoint = "route" /\ pc = "schedule" /\ i <= Len(resolved_stops)
    /\ LET stop == resolved_stops[i]
       IN  /\ resolved_stops' =
                [resolved_stops EXCEPT ![i] =
                    model_copy(stop,
                        [estimatedArrival |-> Some(minutes_to_time(visit_start(stop, current_time))),
                         hasConflict |-> conflict(stop, current_time)])]
           /\ current_time' = visit_start(stop, current_time) + stop.dwellMinutes
    /\ i' = i + 1
    /\ pc' = IF i = Len(resolved_stops) THEN "respond" ELSE "schedule"
    /\ UNCHANGED <<reqVars, unitVars, directions, scheduled, fanVars, orderVars, twiceVars,
                   response, calls, stub>>

\* return {"stops": [s.model_dump() ...], "directions": directions}
RouteRespond ==
    /\ endpoint = "route" /\ pc = "respond"
    /\ Respond(200, resolved_stops, directions)
    /\ UNCHANGED <<reqVars, unitVars, routeVars, fanVars, orderVars, twiceVars, calls, stub>>

-----------------------------------------------------------------------------
(* The /route endpoint serving one request.                                *)

RouteRequests ==
    {[origin |-> e.origin, stops |-> l, preferences |-> e.preferences] :
        e \in Envelopes, l \in StopLists}

\* The handler's locals before it runs.
Idle ==
    /\ pc = "start"
    /\ i = 0
    /\ resolved_stops = << >>
    /\ pending = {}
    /\ gathered = << >>
    /\ directions = None
    /\ current_time = 0
    /\ scheduled = FALSE
    /\ response = None
    /\ calls = NoCalls
    /\ stops = << >>
    /\ origin_coords = None
    /\ remaining = << >>
    /\ ordered = << >>
    /\ cur = None
    /\ args = None
    /\ sent = << >>
    /\ result = None

Init ==
    /\ endpoint = "route"
    /\ body \in RouteRequests
    /\ \E kc \in KeyConfigs : x_google_maps_key = kc.hdr /\ GOOGLE_KEY_ENV = kc.env
    /\ deterministic = FALSE
    /\ stub = NoStub
    /\ run = 1
    /\ first_response = None
    /\ Idle

Next ==
    \/ RouteBegin
    \/ ResolveStop
    \/ StartGeocode
    \/ \E k \in 1..MaxStops : GeocodeStop(k)
    \/ JoinGeocode
    \/ GetDirections
    \/ AttachLegs
    \/ ScheduleStop
    \/ RouteRespond

Spec == Init /\ [][Next]_vars

-----------------------------------------------------------------------------
(* The same /route request invoked twice in sequence against deterministic *)
(* provider stubs.  Nothing is reset between the invocations but what a    *)
(* new call starts with: no response yet, and the observers of the model   *)
(* (calls, scheduled).  Whatever else the first invocation left is still   *)
(* there for the second one to find.                                       *)

TwiceKinds == {"window", "search"}

TwiceRequests ==
    {[origin |-> e.origin, stops |-> l, preferences |-> e.preferences] :
        e \in Envelopes, l \in StopListsOf(TwiceKinds)}

InitTwice ==
    /\ endpoint = "route"
    /\ body \in TwiceRequests
    /\ \E kc \in KeyConfigs : x_google_maps_key = kc.hdr /\ GOOGLE_KEY_ENV = kc.env
    /\ deterministic = TRUE
    /\ stub = NoStub
    /\ run = 1
    /\ first_response = None
    /\ Idle

Reinvoke ==
    /\ endpoint = "route" /\ pc = "done" /\ run = 1 /\ deterministic
    /\ first_response' = response
    /\ run' = 2
    /\ response' = None
    /\ pc' = "start"
    /\ calls' = NoCalls
    /\ scheduled' = FALSE
    /\ UNCHANGED <<reqVars, unitVars, i, resolved_stops, directions, current_time, fanVars,
                   orderVars, stub>>

NextTwice == Next \/ Reinvoke

SpecTwice == InitTwice /\ [][NextTwice]_vars

-----------------------------------------------------------------------------
(* optimize_route: POST /optimize, after a POST /route of the same request *)
(* sent without a key header, against deterministic provider stubs.        *)

\* optimize_route calls resolve_and_optimize(body) as a plain function, so
\* its parameter x_google_maps_key keeps the declared default: the
\* Header(None) object, which is no str.
DirectCallKey == [type |-> "Header", default |-> None]

\* `x_google_maps_key or ""` of an object that defines neither __bool__ nor
\* __len__ is the object; a str goes through as [type |-> "str", val |-> s].
OrEmptyObject(o) == IF o.type = "str" /\ o.val = "" THEN [type |-> "str", val |-> ""] ELSE o

\* get_google_key calls header_key.strip(): AttributeError unless a str.
StripRaises(header_key) == header_key.type # "str"

InitLegacy ==
    /\ endpoint = "route"
    /\ body \in TwiceRequests
    /\ x_google_maps_key = None
    /\ GOOGLE_KEY_ENV \in {"", "ek"}
    /\ deterministic = TRUE
    /\ stub = NoStub
    /\ run = 1
    /\ first_response = None
    /\ Idle

\* The client sends the request again, to /optimize.
SendLegacy ==
    /\ endpoint = "route" /\ pc = "done" /\ run = 1 /\ deterministic
    /\ endpoint' = "optimize"
    /\ first_response' = response
    /\ run' = 2
    /\ response' = None
    /\ pc' = "start"
    /\ calls' = NoCalls
    /\ scheduled' = FALSE
    /\ UNCHANGED <<body, x_google_maps_key, GOOGLE_KEY_ENV, deterministic, unitVars, i,
                   resolved_stops, directions, current_time, fanVars, orderVars, stub>>

\* optimize_route, with the resolve_and_optimize it runs: the empty check,
\* then get_google_key on the default object.
optimize_route ==
    /\ endpoint = "optimize" /\ pc = "start"
    /\ IF body.stops = << >>
       THEN Respond(400, << >>, None)
       ELSE /\ StripRaises(OrEmptyObject(DirectCallKey))
            /\ Abort
    /\ UNCHANGED <<reqVars, unitVars, routeVars, fanVars, orderVars, twiceVars, calls, stub>>

NextLegacy == Next \/ SendLegacy \/ optimize_route

SpecLegacy == InitLegacy /\ [][NextLegacy]_vars

-----------------------------------------------------------------------------
(* optimize_stop_order: POST /route/optimize-order.                        *)

\* Largest number of stops in an /route/optimize-order request.
MaxOrderStops == 3

\* The geocoding stubs of this endpoint: what each address geocodes to.
\* Google (when a key is configured) and Nominatim agree on it.
World(address) ==
    CASE address = "addr A" -> Some(Coord(0, 0))
      [] address = "addr B" -> Some(Coord(100, 0))
      [] address = "addr C" -> Some(Coord(200, 0))
      [] address = "addr D" -> Some(Coord(150, 100))
      [] address = "addr E" -> Some(Coord(250, 100))
      [] address = "Home"   -> Some(Coord(0, 0))
      [] address = "Depot"  -> Some(Coord(300, 100))
      [] OTHER -> None

\* X, Y and Z are addresses no provider can geocode.
OrderNames == {"A", "B", "C", "D", "E", "X", "Y", "Z"}
OrderAddresses == {"addr " \o n : n \in OrderNames} \cup {"Home", "Depot"}
OrderOrigins == {None, Some("Home"), Some("Depot"), Some("addr X")}

GoogleStub(address) ==
    IF World(address) # None
    THEN [kind |-> "json", status |-> "OK", results |-> <<World(address)[1]>>]
    ELSE [kind |-> "json", status |-> "ZERO_RESULTS", results |-> << >>]

NominatimStub(address) ==
    IF World(address) # None
    THEN [kind |-> "json",
          results |-> <<[lat |-> World(address)[1].lat, lon |-> World(address)[1].lng]>>]
    ELSE [kind |-> "json", results |-> << >>]

OrderStub ==
    [google |-> {<<<<a>>, GoogleStub(a)>> : a \in OrderAddresses},
     nominatim |-> {<<<<a>>, NominatimStub(a)>> : a \in OrderAddresses},
     places |-> {}, directions |-> {}]

\* haversine(lat1, lon1, lat2, lon2) in metres, rounded, for the coordinates
\* the stubs answer with: <<lat1, lon1, lat2, lon2, metres>>.
HaversineTable == {
    <<0, 0, 0, 0, 0>>, <<0, 0, 100, 0, 111195>>, <<0, 0, 200, 0, 222390>>, <<0, 0, 150, 100, 200452>>, <<0, 0, 250, 100, 299388>>, <<0, 0, 300, 100, 351613>>,
    <<100, 0, 0, 0, 111195>>, <<100, 0, 100, 0, 0>>, <<100, 0, 200, 0, 111195>>, <<100, 0, 150, 100, 124296>>, <<100, 0, 250, 100, 200429>>, <<100, 0, 300, 100, 248607>>,
    <<200, 0, 0, 0, 222390>>, <<200, 0, 100, 0, 111195>>, <<200, 0, 200, 0, 0>>, <<200, 0, 150, 100, 124273>>, <<200, 0, 250, 100, 124243>>, <<200, 0, 300, 100, 157178>>,
    <<150, 100, 0, 0, 200452>>, <<150, 100, 100, 0, 124296>>, <<150, 100, 200, 0, 124273>>, <<150, 100, 150, 100, 0>>, <<150, 100, 250, 100, 111195>>, <<150, 100, 300, 100, 166792>>,
    <<250, 100, 0, 0, 299388>>, <<250, 100, 100, 0, 200429>>, <<250, 100, 200, 0, 124243>>, <<250, 100, 150, 100, 111195>>, <<250, 100, 250, 100, 0>>, <<250, 100, 300, 100, 55597>>,
    <<300, 100, 0, 0, 351613>>, <<300, 100, 100, 0, 248607>>, <<300, 100, 200, 0, 157178>>, <<300, 100, 150, 100, 166792>>, <<300, 100, 250, 100, 55597>>, <<300, 100, 300, 100, 0>> }

haversine(lat1, lon1, lat2, lon2) ==
    (CHOOSE e \in HaversineTable :
        e[1] = lat1 /\ e[2] = lon1 /\ e[3] = lat2 /\ e[4] = lon2)[5]

\* Requests: up to MaxOrderStops distinct named stops, in any order.
OrderStopLists ==
    UNION {{[k \in 1..n |-> RouteStop(names[k], "addr " \o names[k])] :
               names \in {f \in [1..n -> OrderNames] :
                             \A a, b \in 1..n : a # b => f[a] # f[b]}}
           : n \in 0..MaxOrderStops}

OrderRequests == {[origin |-> o, stops |-> l] : o \in OrderOrigins, l \in OrderStopLists}

OrderBegin ==
    /\ endpoint = "optimize-order" /\ pc = "start"
    /\ stops' = body.stops
    /\ IF Len(body.stops) <= 2
       THEN /\ Respond(200, body.stops, None)
            /\ UNCHANGED fanVars
       ELSE /\ gathered' = body.stops
            /\ pending' = {k \in 1..Len(body.stops) : ~ HasCoords(body.stops[k])}
            /\ pc' = "geocode"
            /\ UNCHANGED response
    /\ UNCHANGED <<reqVars, unitVars, routeVars, origin_coords, remaining, ordered, cur,
                   twiceVars, calls, stub>>

\* The answers the stubs of this endpoint may give.
OrderGoogleAnswers == {GoogleStub(a) : a \in OrderAddresses}
OrderNominatimAnswers == {NominatimStub(a) : a \in OrderAddresses}

\* Variant of ensure_coords whose results are collected in the order the
\* tasks complete instead of the order they were given in.
ensure_coords_as_completed(k) ==
    /\ endpoint = "optimize-order" /\ pc = "geocode" /\ k \in pending
    /\ \E gAns \in AnswersIf(gkey # "", OrderGoogleAnswers, NoGeoAnswer) :
       \E nAns \in AnswersIf(NeedsNominatim(gkey, gAns), OrderNominatimAnswers, NoNomAnswer) :
       LET stop == body.stops[k]
           geo  == geocode(stop.address, gkey, gAns, nAns)
           made == geocode_calls(gkey, gAns)
           newG == IF made.google = 1 THEN {<<<<stop.address>>, gAns>>} ELSE {}
           newN == IF made.nominatim = 1 THEN {<<<<stop.address>>, nAns>>} ELSE {}
           slot == Len(gathered) - Cardinality(pending) + 1
       IN  /\ Fits(stub.google, newG) /\ Fits(stub.nominatim, newN)
           /\ calls' = [calls EXCEPT !.google = @ + made.google,
                                     !.nominatim = @ + made.nominatim]
           /\ IF geo.exc
              THEN Abort /\ UNCHANGED fanVars
              ELSE /\ gathered' = [gathered EXCEPT ![slot] = WithCoords(stop, geo.val)]
                   /\ pending' = pending \ {k}
                   /\ UNCHANGED <<pc, response>>
    /\ UNCHANGED <<reqVars, unitVars, routeVars, orderVars, twiceVars, stub>>

ensure_coords(k) ==
    /\ endpoint = "optimize-order" /\ pc = "geocode" /\ k \in pending
    /\ \E gAns \in AnswersIf(gkey # "", OrderGoogleAnswers, NoGeoAnswer) :
       \E nAns \in AnswersIf(NeedsNominatim(gkey, gAns), OrderNominatimAnswers, NoNomAnswer) :
       LET stop == gathered[k]
           geo  == geocode(stop.address, gkey, gAns, nAns)
           made == geocode_calls(gkey, gAns)
           newG == IF made.google = 1 THEN {<<<<stop.address>>, gAns>>} ELSE {}
           newN == IF made.nominatim = 1 THEN {<<<<stop.address>>, nAns>>} ELSE {}
       IN  /\ Fits(stub.google, newG) /\ Fits(stub.nominatim, newN)
           /\ calls' = [calls EXCEPT !.google = @ + made.google,
                                     !.nominatim = @ + made.nominatim]
           /\ IF geo.exc
              THEN Abort /\ UNCHANGED fanVars
              ELSE /\ gathered' = [gathered EXCEPT ![k] = WithCoords(stop, geo.val)]
                   /\ pending' = pending \ {k}
                   /\ UNCHANGED <<pc, response>>
    /\ UNCHANGED <<reqVars, unitVars, routeVars, orderVars, twiceVars, stub>>

\* The gather is joined; the origin is geocoded next when one was given.
OrderJoin ==
    /\ endpoint = "optimize-order" /\ pc = "geocode" /\ pending = {}
    /\ stops' = gathered
    /\ origin_coords' = None
    /\ pc' = IF TruthyStr(body.origin) THEN "origin" ELSE "anchor"
    /\ UNCHANGED <<reqVars, unitVars, routeVars, fanVars, remaining, ordered, cur, twiceVars,
                   response, calls, stub>>

GeocodeOrigin ==
    /\ endpoint = "optimize-order" /\ pc = "origin"
    /\ \E gAns \in AnswersIf(gkey # "", OrderGoogleAnswers, NoGeoAnswer) :
       \E nAns \in AnswersIf(NeedsNominatim(gkey, gAns), OrderNominatimAnswers, NoNomAnswer) :
       LET geo  == geocode(body.origin[1], gkey, gAns, nAns)
           made == geocode_calls(gkey, gAns)
           newG == IF made.google = 1 THEN {<<<<body.origin[1]>>, gAns>>} ELSE {}
           newN == IF made.nominatim = 1 THEN {<<<<body.origin[1]>>, nAns>>} ELSE {}
       IN  /\ Fits(stub.google, newG) /\ Fits(stub.nominatim, newN)
           /\ calls' = [calls EXCEPT !.google = @ + made.google,
                                     !.nominatim = @ + made.nominatim]
           /\ IF geo.exc
              THEN Abort /\ UNCHANGED origin_coords
              ELSE /\ origin_coords' = geo.val
                   /\ pc' = "anchor"
                   /\ UNCHANGED response
    /\ UNCHANGED <<reqVars, unitVars, routeVars, fanVars, stops, remaining, ordered, cur,
                   twiceVars, stub>>

\* Variant of PickStart that answers with the stops of the request, as they
\* were before geocoding, when it has no start.
PickStart_returns_request ==
    /\ endpoint = "optimize-order" /\ pc = "anchor"
    /\ IF origin_coords # None
       THEN /\ remaining' = [k \in 1..Len(stops) |-> k]
            /\ ordered' = << >>
            /\ cur' = origin_coords
            /\ pc' = "loop"
            /\ UNCHANGED response
       ELSE IF HasCoords(stops[1])
       THEN /\ remaining' = [k \in 1..(Len(stops) - 1) |-> k + 1]
            /\ ordered' = <<1>>
            /\ cur' = Some(Coord(stops[1].latitude[1], stops[1].longitude[1]))
            /\ pc' = "loop"
            /\ UNCHANGED response
       ELSE /\ remaining' = [k \in 1..Len(stops) |-> k]
            /\ ordered' = << >>
            /\ Respond(200, body.stops, None)
            /\ UNCHANGED cur
    /\ UNCHANGED <<reqVars, unitVars, routeVars, fanVars, stops, origin_coords, twiceVars,
                   calls, stub>>

\* Variant of PickStart that answers with no stops when it has no start.
PickStart_drops_stops ==
    /\ endpoint = "optimize-order" /\ pc = "anchor"
    /\ IF origin_coords # None
       THEN /\ remaining' = [k \in 1..Len(stops) |-> k]
            /\ ordered' = << >>
            /\ cur' = origin_coords
            /\ pc' = "loop"
            /\ UNCHANGED response
       ELSE IF HasCoords(stops[1])
       THEN /\ remaining' = [k \in 1..(Len(stops) - 1) |-> k + 1]
            /\ ordered' = <<1>>
            /\ cur' = Some(Coord(stops[1].latitude[1], stops[1].longitude[1]))
            /\ pc' = "loop"
            /\ UNCHANGED response
       ELSE /\ remaining' = [k \in 1..Len(stops) |-> k]
            /\ ordered' = << >>
            /\ Respond(200, << >>, None)
            /\ UNCHANGED cur
    /\ UNCHANGED <<reqVars, unitVars, routeVars, fanVars, stops, origin_coords, twiceVars,
                   calls, stub>>

\* The starting point: the origin, else the first stop, else give up.
PickStart ==
    /\ endpoint = "optimize-order" /\ pc = "anchor"
    /\ IF origin_coords # None
       THEN /\ remaining' = [k \in 1..Len(stops) |-> k]
            /\ ordered' = << >>
            /\ cur' = origin_coords
            /\ pc' = "loop"
            /\ UNCHANGED response
       ELSE IF HasCoords(stops[1])
       THEN /\ remaining' = [k \in 1..(Len(stops) - 1) |-> k + 1]
            /\ ordered' = <<1>>
            /\ cur' = Some(Coord(stops[1].latitude[1], stops[1].longitude[1]))
            /\ pc' = "loop"
            /\ UNCHANGED response
       ELSE /\ remaining' = [k \in 1..Len(stops) |-> k]
            /\ ordered' = << >>
            /\ Respond(200, stops, None)
            /\ UNCHANGED cur
    /\ UNCHANGED <<reqVars, unitVars, routeVars, fanVars, stops, origin_coords, twiceVars,
                   calls, stub>>

DistanceTo(idx) ==
    haversine(cur[1].lat, cur[1].lng, stops[idx].latitude[1], stops[idx].longitude[1])

\* The index the inner for-loop leaves in best_idx (0 for None): the first
\* of the remaining stops with coordinates that no other one beats.
BestIdx ==
    LET cands == {p \in 1..Len(remaining) : HasCoords(stops[remaining[p]])}
    IN  IF cands = {} THEN 0
        ELSE remaining[CHOOSE p \in cands :
                 \A q \in cands :
                     \/ DistanceTo(remaining[p]) < DistanceTo(remaining[q])
                     \/ (DistanceTo(remaining[p]) = DistanceTo(remaining[q]) /\ p <= q)]

\* list.remove(x)
Without(list, x) == SelectSeq(list, LAMBDA y : y # x)

\* Variant of NearestStep that leaves the loop without the stops it could
\* not place.
NearestStep_drops_unplaced ==
    /\ endpoint = "optimize-order" /\ pc = "loop" /\ remaining # << >>
    /\ IF BestIdx = 0
       THEN /\ pc' = "respond"
            /\ UNCHANGED <<ordered, remaining, cur>>
       ELSE /\ ordered' = Append(ordered, BestIdx)
            /\ remaining' = Without(remaining, BestIdx)
            /\ cur' = Some(Coord(stops[BestIdx].latitude[1], stops[BestIdx].longitude[1]))
            /\ pc' = IF remaining' = << >> THEN "respond" ELSE "loop"
    /\ UNCHANGED <<reqVars, unitVars, routeVars, fanVars, stops, origin_coords, twiceVars,
                   response, calls, stub>>

\* One iteration of `while remaining`.
NearestStep ==
    /\ endpoint = "optimize-order" /\ pc = "loop" /\ remaining # << >>
    /\ IF BestIdx = 0
       THEN /\ ordered' = ordered \o remaining
            /\ pc' = "respond"
            /\ UNCHANGED <<remaining, cur>>
       ELSE /\ ordered' = Append(ordered, BestIdx)
            /\ remaining' = Without(remaining, BestIdx)
            /\ cur' = Some(Coord(stops[BestIdx].latitude[1], stops[BestIdx].longitude[1]))
            /\ pc' = IF remaining' = << >> THEN "respond" ELSE "loop"
    /\ UNCHANGED <<reqVars, unitVars, routeVars, fanVars, stops, origin_coords, twiceVars,
                   response, calls, stub>>

\* reordered = [stops[i] for i in ordered]
OrderRespond ==
    /\ endpoint = "optimize-order" /\ pc = "respond"
    /\ Respond(200, [k \in 1..Len(ordered) |-> stops[ordered[k]]], None)
    /\ UNCHANGED <<reqVars, unitVars, routeVars, fanVars, orderVars, twiceVars, calls, stub>>

InitOrder ==
    /\ endpoint = "optimize-order"
    /\ body \in OrderRequests
    /\ \E kc \in KeyConfigs : x_google_maps_key = kc.hdr /\ GOOGLE_KEY_ENV = kc.env
    /\ deterministic = TRUE
    /\ stub = OrderStub
    /\ run = 1
    /\ first_response = None
    /\ Idle

NextOrder ==
    \/ OrderBegin
    \/ \E k \in 1..MaxOrderStops : ensure_coords(k)
    \/ OrderJoin
    \/ GeocodeOrigin
    \/ PickStart
    \/ NearestStep
    \/ OrderRespond

SpecOrder == InitOrder /\ [][NextOrder]_vars

\* The requests whose runs are followed to their end: stops that geocode
\* (A at latitude and longitude 0, D, E) and stops that do not (X, Y).
FairNames == {"A", "D", "E", "X", "Y"}

InitFair ==
    /\ InitOrder
    /\ \A k \in 1..Len(body.stops) : body.stops[k].id \in FairNames

\* The handler is a coroutine the event loop keeps running until it returns.
FairOrder == InitFair /\ [][NextOrder]_vars /\ WF_vars(NextOrder)

-----------------------------------------------------------------------------
(* Properties of /route.                                                   *)

Answered(status) == response # None /\ response[1].status = status
out == response[1].stops

\* C1: whatever the providers answer, the stops array /route returns has the
\* length of the request's and the stop at index k has the id of the
\* request's stop at index k.
C1_OrderPreserved ==
    Answered(200) =>
        /\ Len(out) = Len(body.stops)
        /\ \A k \in 1..Len(body.stops) : out[k].id = body.stops[k].id

\* A two-stop route in which resolution, leg attachment and conflict
\* scheduling all changed a stop.
C1_Witness ==
    /\ Answered(200) /\ Len(out) = 2 /\ scheduled
    /\ \E k \in 1..2 : out[k].stopType = "resolved"
    /\ \E k \in 1..2 : out[k].hasConflict
    /\ \E k \in 1..2 : out[k].driveMinutesFromPrev = None
    /\ \E k \in 1..2 : out[k].latitude = None

\* C2: a request with a non-empty stop list is never aborted because an
\* outbound call failed: it is always answered with a result.
C2_NeverAborts ==
    (response # None /\ body.stops # << >>) => response[1].status = 200

\* C3: with no key configured, every stop keeps its stopType, every search
\* stop carries a non-empty note and directions is null.
C3_NoProviders ==
    (response # None /\ body.stops # << >> /\ gkey = "") =>
        /\ Answered(200)
        /\ response[1].directions = None
        /\ \A k \in 1..Len(body.stops) :
              /\ out[k].stopType = body.stops[k].stopType
              /\ body.stops[k].stopType = "search" => TruthyStr(out[k].notes)

\* C3 as amended: with no key configured, every stop keeps its stopType and
\* directions is null; a search stop with a non-empty searchQuery carries a
\* non-empty note, and a search stop whose searchQuery is missing or empty
\* is returned with the notes of the request (none is added).
C3_NoProvidersAmended ==
    (response # None /\ body.stops # << >> /\ gkey = "") =>
        /\ Answered(200)
        /\ response[1].directions = None
        /\ \A k \in 1..Len(body.stops) :
              /\ out[k].stopType = body.stops[k].stopType
              /\ (body.stops[k].stopType = "search" /\ TruthyStr(body.stops[k].searchQuery))
                    => TruthyStr(out[k].notes)
              /\ (body.stops[k].stopType = "search" /\ ~ TruthyStr(body.stops[k].searchQuery))
                    => out[k].notes = body.stops[k].notes

\* Without a key: a search stop that got its note, beside one with no query.
C3_Witness ==
    /\ Answered(200) /\ gkey = "" /\ Len(out) = 2
    /\ body.stops[1].stopType = "search" /\ body.stops[1].searchQuery = Some("coffee")
    /\ out[1].notes = Some("Could not find 'coffee' along route - using as-is")
    /\ body.stops[2].stopType = "search" /\ body.stops[2].searchQuery = None
    /\ out[2].notes = None

\* C4 reads the schedule off the response: the wall-clock texts of the
\* requests, in minutes since midnight, and the 12-hour rendering.
WallClock(t) ==
    CASE t = "09:00" -> 540 [] t = "09:15" -> 555
      [] t = "13:05" -> 785 [] t = "08:10" -> 490

Rendered12(m) ==
    LET hour == (m \div 60) % 24
        mins == m % 60
    IN  ToString(((hour + 11) % 12) + 1) \o ":" \o ToString(mins \div 10)
        \o ToString(mins % 10) \o (IF hour < 12 THEN " AM" ELSE " PM")

RECURSIVE VisitStartAt(_, _)
VisitStartAt(list, k) ==
    LET clock   == IF k = 1 THEN 480
                   ELSE VisitStartAt(list, k - 1) + list[k - 1].dwellMinutes
        drive   == IF list[k].driveMinutesFromPrev = None THEN 0
                   ELSE list[k].driveMinutesFromPrev[1]
        opening == IF list[k].openTime = None THEN 0 ELSE WallClock(list[k].openTime[1])
    IN  Max(clock + drive, opening)

ClosingAt(list, k) ==
    IF list[k].closeTime = None THEN 1439 ELSE WallClock(list[k].closeTime[1])

\* C4: when the conflict scheduler runs it is one forward pass from 08:00:
\* each stop's visit starts at max(clock + drive, opening), the stop is in
\* conflict exactly when the visit plus the dwell ends after closing, its
\* estimatedArrival is the 12-hour text of the visit start, and the clock
\* moves to visit start plus dwell.  The single stop with drive 30, window
\* 09:00-09:15 and dwell 20 is in conflict and arrives at "9:00 AM".
C4_SchedulerPass ==
    /\ (Answered(200) /\ scheduled) =>
          /\ \A k \in 1..Len(out) :
                /\ out[k].estimatedArrival = Some(Rendered12(VisitStartAt(out, k)))
                /\ out[k].hasConflict
                     = (VisitStartAt(out, k) + out[k].dwellMinutes > ClosingAt(out, k))
          /\ current_time = VisitStartAt(out, Len(out)) + out[Len(out)].dwellMinutes
          /\ (/\ Len(out) = 1
              /\ out[1].driveMinutesFromPrev = Some(30)
              /\ out[1].openTime = Some("09:00") /\ out[1].closeTime = Some("09:15")
              /\ out[1].dwellMinutes = 20)
             => out[1].hasConflict /\ out[1].estimatedArrival = Some("9:00 AM")
    /\ (pc = "schedule" /\ i = 1) => current_time = 480

\* The example of the claim, and a later stop that arrives after its opening.
C4_Witness ==
    /\ Answered(200) /\ scheduled /\ Len(out) = 1
    /\ out[1].driveMinutesFromPrev = Some(30)
    /\ out[1].openTime = Some("09:00") /\ out[1].closeTime = Some("09:15")
    /\ out[1].hasConflict /\ out[1].estimatedArrival = Some("9:00 AM")

DeclaresWindow(list) ==
    \E k \in 1..Len(list) : list[k].openTime # None \/ list[k].closeTime # None

\* C5: the conflict scheduler runs exactly when some stop declares an
\* openTime or a closeTime and the directions call succeeded; when it does
\* not run, no stop of the response has an estimatedArrival or a conflict.
C5_SchedulerRunsIff ==
    Answered(200) =>
        /\ scheduled <=> (DeclaresWindow(body.stops) /\ response[1].directions # None)
        /\ ~ scheduled =>
              \A k \in 1..Len(out) :
                  out[k].estimatedArrival = None /\ ~ out[k].hasConflict

\* A request with a time window whose directions call found no route.
C5_Witness ==
    /\ Answered(200) /\ ~ scheduled /\ gkey # "" /\ calls.directions = 1
    /\ DeclaresWindow(body.stops) /\ response[1].directions = None

\* C6: a search stop comes out either resolved, with the place's address and
\* the caller's label or else the place's name, or still search, with its
\* original address and a non-empty note; there is no other outcome.
C6_SearchOutcomes ==
    Answered(200) =>
        \A k \in 1..Len(body.stops) :
            body.stops[k].stopType = "search" =>
                \/ /\ out[k].stopType = "resolved"
                   /\ \E p \in PlacePool :
                         /\ out[k].address = p.formatted_address
                         /\ out[k].label = IF body.stops[k].label # None
                                           THEN body.stops[k].label ELSE Some(p.name)
                \/ /\ out[k].stopType = "search"
                   /\ out[k].address = body.stops[k].address
                   /\ TruthyStr(out[k].notes)

\* C6 as amended: a search stop with a non-empty searchQuery comes out
\* either resolved, with the place's address and the caller's label or else
\* the place's name, or still search, with its original address and a
\* non-empty note; a stop is resolved only after a place search was made.
\* A search stop whose searchQuery is missing or empty is not searched for:
\* it keeps its stopType, address, label and notes.
C6_SearchOutcomesAmended ==
    Answered(200) =>
        /\ (\E k \in 1..Len(out) : out[k].stopType = "resolved") => calls.places >= 1
        /\ \A k \in 1..Len(body.stops) :
            body.stops[k].stopType = "search" =>
                IF TruthyStr(body.stops[k].searchQuery)
                THEN \/ /\ out[k].stopType = "resolved"
                        /\ \E p \in PlacePool :
                              /\ out[k].address = p.formatted_address
                              /\ out[k].label = IF body.stops[k].label # None
                                                THEN body.stops[k].label ELSE Some(p.name)
                     \/ /\ out[k].stopType = "search"
                        /\ out[k].address = body.stops[k].address
                        /\ TruthyStr(out[k].notes)
                ELSE /\ out[k].stopType = "search"
                     /\ out[k].address = body.stops[k].address
                     /\ out[k].label = body.stops[k].label
                     /\ out[k].notes = body.stops[k].notes

\* One search stop resolved under the caller's label, one not found.
C6_Witness ==
    /\ Answered(200) /\ gkey # "" /\ Len(out) = 2
    /\ body.stops[1].stopType = "search" /\ body.stops[1].label = Some("Fill up")
    /\ out[1].stopType = "resolved" /\ out[1].label = Some("Fill up")
    /\ out[1].address = "12 Bean St"
    /\ body.stops[2].stopType = "search" /\ body.stops[2].searchQuery = Some("coffee")
    /\ out[2].stopType = "search" /\ out[2].address = "somewhere"
    /\ TruthyStr(out[2].notes)

\* C7: when directions are unavailable (no key, or no route reported) the
\* response still has every stop, directions is null, and no stop received a
\* driveMinutesFromPrev or a distanceMeters.
C7_DirectionsUnavailable ==
    /\ (pc \in {"attach", "schedule", "respond"} /\ directions = None) => ~ scheduled
    /\ (Answered(200) /\ response[1].directions = None) =>
          /\ Len(out) = Len(body.stops)
          /\ \A k \in 1..Len(out) :
                /\ out[k].driveMinutesFromPrev = None
                /\ out[k].distanceMeters = None

\* The provider was asked and reported no route for a two-stop request.
C7_Witness ==
    /\ Answered(200) /\ response[1].directions = None
    /\ gkey # "" /\ calls.directions = 1 /\ Len(out) = 2

\* C8: a request with an empty stop list is rejected with status 400 and no
\* outbound call is issued for it.
C8_EmptyRejected ==
    body.stops = << >> =>
        /\ calls = NoCalls
        /\ pc \in {"start", "done"}
        /\ response # None => response[1].status = 400

C8_Witness == body.stops = << >> /\ Answered(400) /\ gkey # ""

\* C9: invoking /route twice in sequence with the same request, against
\* providers that answer the same request the same way, yields the same
\* response: the second invocation reads nothing the first one left behind.
C9_Idempotent ==
    (run = 2 /\ response # None) => response = first_response

\* A second invocation that resolved, geocoded, routed and scheduled again.
C9_Witness ==
    /\ run = 2 /\ Answered(200) /\ response = first_response
    /\ scheduled /\ calls.places >= 1 /\ calls.google >= 1 /\ calls.directions = 1
    /\ \E k \in 1..Len(out) : out[k].stopType = "resolved"

-----------------------------------------------------------------------------
(* Properties of /route/optimize-order.                                    *)

OutIds == [k \in 1..Len(out) |-> out[k].id]

\* Stop `id` of the response has the coordinates (lat, lng).
GeocodedTo(id, lat, lng) ==
    \E k \in 1..Len(out) :
        out[k].id = id /\ out[k].latitude = Some(lat) /\ out[k].longitude = Some(lng)

\* C10: three stops that geocode to A(0,0), B(1,0) and C(2,0), with an
\* origin that geocodes to (0,0), come back in the order [A, B, C] in
\* whatever order the request gives them.
C10_StraightLine ==
    (/\ endpoint = "optimize-order" /\ Answered(200)
     /\ Len(body.stops) = 3
     /\ origin_coords = Some(Coord(0, 0))
     /\ GeocodedTo("A", 0, 0) /\ GeocodedTo("B", 100, 0) /\ GeocodedTo("C", 200, 0))
    => OutIds = <<"A", "B", "C">>

-----------------------------------------------------------------------------
(* Properties of /route/optimize-order, continued.                        *)

Reordering == endpoint = "optimize-order"

\* A stop has coordinates when both fields hold a number, 0 included.
Known(stop) == stop.latitude # None /\ stop.longitude # None

\* The origin is absent, or geocode() found nothing for it.
NoOriginPoint == body.origin = None \/ World(body.origin[1]) = None

\* C11: when the geocode phase leaves every stop without coordinates and the
\* origin is absent or cannot be geocoded, the reorder answers 200 with the
\* request's stops, in the request's order, every field as requested.
C11_ReorderDegrades ==
    (Reordering /\ response # None /\ Answered(200) /\ NoOriginPoint
       /\ \A k \in 1..Len(stops) : ~ Known(stops[k]))
        => out = body.stops

C11_Witness ==
    /\ Reordering /\ Answered(200) /\ Len(body.stops) > 2
    /\ body.origin # None /\ NoOriginPoint
    /\ \A k \in 1..Len(stops) : ~ Known(stops[k])
    /\ out = body.stops

\* The ids of the stops of a list that lack coordinates, in list order.
LackingIds(list) ==
    LET lacking == SelectSeq(list, LAMBDA st : ~ Known(st))
    IN  [k \in 1..Len(lacking) |-> lacking[k].id]

\* The reorder has a point to start from: a geocoded origin, or a first
\* stop with coordinates.
UsableStart == origin_coords # None \/ Known(stops[1])

\* C12: with more than 2 stops and a usable starting point, every stop of
\* the output that has a latitude and a longitude (0 included) comes before
\* every stop that lacks them, and the stops that lack them keep their
\* original relative order.
C12_CoordsFirst ==
    (Reordering /\ response # None /\ Answered(200) /\ Len(body.stops) > 2
       /\ UsableStart)
        => /\ \A a, b \in 1..Len(out) :
                  (Known(out[a]) /\ ~ Known(out[b])) => a < b
           /\ LackingIds(out) = LackingIds(stops)

\* The remaining stops whose coordinates are known, 0 included.
KnownRemaining ==
    {remaining[p] : p \in {q \in 1..Len(remaining) : Known(stops[remaining[q]])}}

\* C13: every step of the reorder loop taken while some remaining stop has
\* known coordinates appends a stop with known coordinates whose haversine
\* distance from the current position is the least among them, and moves
\* the current position to that stop.
C13_GreedyMin ==
    [][(Reordering /\ pc = "loop" /\ KnownRemaining # {})
          => LET next == ordered'[Len(ordered) + 1]
             IN  /\ next \in KnownRemaining
                 /\ \A j \in KnownRemaining : DistanceTo(next) <= DistanceTo(j)
                 /\ cur' = Some(Coord(stops[next].latitude[1],
                                      stops[next].longitude[1]))]_vars

-----------------------------------------------------------------------------
(* Properties of /route, continued.                                        *)

Routing == endpoint = "route"

\* Whether phase 1 searches a place for the stop.
Searched(stop) == stop.stopType = "search" /\ TruthyStr(stop.searchQuery)

\* C14: a stop that carries a latitude and a longitude in the request,
\* whatever their values, comes out of /route with exactly those; and a
\* request all of whose stops carry both, none of them searched, issues no
\* geocode call.
C14_CoordsUntouched ==
    (Routing /\ response # None /\ Answered(200))
        => /\ \A k \in 1..Len(body.stops) :
                  Known(body.stops[k])
                      => /\ out[k].latitude = body.stops[k].latitude
                         /\ out[k].longitude = body.stops[k].longitude
           /\ (\A k \in 1..Len(body.stops) :
                   Known(body.stops[k]) /\ ~ Searched(body.stops[k]))
                  => calls.google = 0 /\ calls.nominatim = 0

-----------------------------------------------------------------------------
(* The helpers called on their own: one call of get_directions,            *)
(* search_places_along_route or geocode with arguments of the caller's     *)
(* choice, against providers that answer as they please.  `endpoint` names *)
(* the helper, `args` holds its arguments, `sent` the exchanges with the   *)
(* providers in the order they were issued, `result` what it returned.     *)

\* Largest number of legs in a route the directions provider answers with.
MaxLegs == 2

\* Legs whose distances round down each and round up when summed, and whose
\* durations lose a different amount to floor division each.
LegPool ==
    {[duration |-> "59s", distanceMeters |-> 1045],
     [duration |-> "119s", distanceMeters |-> 1049],
     [duration |-> "1800s", distanceMeters |-> 12303]}

LegLists == UNION {[1..n -> LegPool] : n \in 0..MaxLegs}

CallDirectionsAnswers ==
    {[kind |-> "json", routes |-> <<[legs |-> l]>>] : l \in LegLists}
    \cup {[kind |-> "json", routes |-> << >>],
          [kind |-> "raise", routes |-> << >>]}

\* prefs: None, or any combination of the four flags.
AllPreferences ==
    {None} \cup {Some(RoutePreferences(s, h, t, f)) : s, h, t, f \in BOOLEAN}

DirectionsArgs ==
    {[origin |-> "Home", destination |-> "1 Main St", waypoints |-> w, prefs |-> p] :
        w \in {<< >>, <<"2 Oak Ave">>}, p \in AllPreferences}

CallDirections ==
    /\ endpoint = "get_directions" /\ pc = "start"
    /\ \E ans \in AnswersIf(gkey # "", CallDirectionsAnswers, NoDirAnswer) :
       /\ result' = Some(get_directions(args.origin, args.destination,
                                        args.waypoints, gkey, args.prefs, ans))
       /\ sent' = IF gkey = "" THEN << >>
                  ELSE <<[to |-> "routes",
                          request |-> DirectionsBody(args.origin, args.destination,
                                                     args.waypoints, args.prefs),
                          answer |-> ans]>>
       /\ calls' = [calls EXCEPT !.directions = @ + Len(sent')]
    /\ pc' = "done"
    /\ UNCHANGED <<reqVars, routeVars, fanVars, orderVars, twiceVars, args,
                   response, stub>>

\* Coordinates the geocoders answer with when a helper is called on its own:
\* pairs of them lie closer than the lower clamp of the search radius,
\* between the clamps, and beyond the upper one.
CallGeoPool ==
    {Coord(3748, -12223), Coord(3750, -12220), Coord(3760, -12200),
     Coord(3800, -12150), Coord(3800, -12149)}

\* Google Geocoding bodies, among them an OK status without results and a
\* refusal that carries results all the same; or a failed call.
CallGoogleAnswers ==
    {[kind |-> "json", status |-> "OK", results |-> <<c>>] : c \in CallGeoPool}
    \cup {[kind |-> "json", status |-> "OK", results |-> << >>],
          [kind |-> "json", status |-> "ZERO_RESULTS", results |-> << >>],
          [kind |-> "json", status |-> "OVER_QUERY_LIMIT",
           results |-> <<Coord(3748, -12223)>>],
          [kind |-> "raise", status |-> "", results |-> << >>]}

CallNominatimAnswers ==
    {[kind |-> "json", results |-> <<[lat |-> c.lat, lon |-> c.lng]>>] : c \in CallGeoPool}
    \cup {[kind |-> "json", results |-> << >>],
          [kind |-> "raise", results |-> << >>]}

\* The exchanges of one geocode(), in the order it issues them.
GeocodeExchanges(address, key, gAns, nAns) ==
    (IF geocode_calls(key, gAns).google = 1
     THEN <<[to |-> "google", request |-> address, answer |-> gAns]>> ELSE << >>)
    \o (IF geocode_calls(key, gAns).nominatim = 1
        THEN <<[to |-> "nominatim", request |-> address, answer |-> nAns]>> ELSE << >>)

GeocodeArgs == {[address |-> "1 Main St"]}

CallGeocode ==
    /\ endpoint = "geocode" /\ pc = "start"
    /\ \E gAns \in AnswersIf(gkey # "", CallGoogleAnswers, NoGeoAnswer) :
       \E nAns \in AnswersIf(NeedsNominatim(gkey, gAns), CallNominatimAnswers, NoNomAnswer) :
       /\ result' = Some(geocode(args.address, gkey, gAns, nAns))
       /\ sent' = GeocodeExchanges(args.address, gkey, gAns, nAns)
       /\ calls' = [calls EXCEPT !.google = @ + geocode_calls(gkey, gAns).google,
                                 !.nominatim = @ + geocode_calls(gkey, gAns).nominatim]
    /\ pc' = "done"
    /\ UNCHANGED <<reqVars, routeVars, fanVars, orderVars, twiceVars, args,
                   response, stub>>

\* The params of the places text search: with the midpoint (as the sums of
\* the two endpoints' coordinates, twice the midpoint) and the radius, or
\* the query alone.
PlacesRequest(query, geo_a, geo_b) ==
    IF geo_a = None \/ geo_b = None THEN [query |-> query, biased |-> FALSE]
    ELSE [query |-> query, biased |-> TRUE,
          location |-> <<geo_a[1].lat + geo_b[1].lat, geo_a[1].lng + geo_b[1].lng>>,
          radius |-> SearchRadius(geo_a[1], geo_b[1])]

SearchArgs ==
    {[query |-> "coffee", origin_addr |-> "Home", destination_addr |-> "9 Far Rd",
      prev_stop_addr |-> a, next_stop_addr |-> b] :
        a \in {None, Some("1 Main St")}, b \in {None, Some("2 Oak Ave")}}

CallSearch ==
    /\ endpoint = "search_places_along_route" /\ pc = "start"
    /\ LET calling == gkey # ""
           point_a == IF TruthyStr(args.prev_stop_addr) THEN args.prev_stop_addr[1]
                      ELSE args.origin_addr
           point_b == IF TruthyStr(args.next_stop_addr) THEN args.next_stop_addr[1]
                      ELSE args.destination_addr
       IN  \E gA \in AnswersIf(calling, CallGoogleAnswers, NoGeoAnswer),
              gB \in AnswersIf(calling, CallGoogleAnswers, NoGeoAnswer) :
           \E nA \in AnswersIf(calling /\ NeedsNominatim(gkey, gA), CallNominatimAnswers, NoNomAnswer),
              nB \in AnswersIf(calling /\ NeedsNominatim(gkey, gB), CallNominatimAnswers, NoNomAnswer) :
           \E pl \in AnswersIf(calling /\ gA.kind # "raise" /\ gB.kind # "raise",
                               PlacesAnswers, NoPlacesAnswer) :
           LET ans  == [gA |-> gA, nA |-> nA, gB |-> gB, nB |-> nB, places |-> pl]
               made == search_calls(gkey, ans)
           IN  /\ result' = Some(search_places_along_route(args.query, args.origin_addr,
                                     args.destination_addr, gkey, args.prev_stop_addr,
                                     args.next_stop_addr, ans))
               /\ sent' = IF ~ calling THEN << >>
                          ELSE GeocodeExchanges(point_a, gkey, gA, nA)
                               \o GeocodeExchanges(point_b, gkey, gB, nB)
                               \o (IF made.places = 1
                                   THEN <<[to |-> "places",
                                           request |-> PlacesRequest(args.query,
                                               geocode(point_a, gkey, gA, nA).val,
                                               geocode(point_b, gkey, gB, nB).val),
                                           answer |-> pl]>>
                                   ELSE << >>)
               /\ calls' = [calls EXCEPT !.google = @ + made.google,
                                         !.nominatim = @ + made.nominatim,
                                         !.places = @ + made.places]
    /\ pc' = "done"
    /\ UNCHANGED <<reqVars, routeVars, fanVars, orderVars, twiceVars, args,
                   response, stub>>

-----------------------------------------------------------------------------
(* tesla_request and refresh_tesla_token, called on their own.  A token    *)
(* body is the JSON object of the token endpoint, with None for a key that *)
(* is absent.                                                              *)

TokenBodies ==
    {[access_token |-> Some("at2"), refresh_token |-> Some("rt2"), error |-> None],
     [access_token |-> Some("at2"), refresh_token |-> None, error |-> None],
     [access_token |-> Some(""), refresh_token |-> None, error |-> None],
     [access_token |-> None, refresh_token |-> None, error |-> Some("invalid_grant")],
     [access_token |-> None, refresh_token |-> None, error |-> None]}

NoTokenBody == [access_token |-> None, refresh_token |-> None, error |-> None]

\* What the token endpoint does: answer 200 with a JSON object, answer 200
\* with a body that is no JSON, answer another status, or fail to answer.
RefreshAnswers ==
    {[kind |-> "json", status |-> 200, body |-> b] : b \in TokenBodies}
        \cup {[kind |-> "text", status |-> 200, body |-> NoTokenBody],
              [kind |-> "json", status |-> 400, body |-> NoTokenBody],
              [kind |-> "raise", status |-> 0, body |-> NoTokenBody]}

NoRefreshAnswer == [kind |-> "none", status |-> 0, body |-> NoTokenBody]

\* What the Fleet API does: answer with a status, or fail to answer.
TeslaAnswers ==
    {[kind |-> "status", status |-> 200], [kind |-> "status", status |-> 401],
     [kind |-> "status", status |-> 500], [kind |-> "raise", status |-> 0]}

NoTeslaAnswer == [kind |-> "none", status |-> 0]

\* Python truthiness of a dict.
TruthyDict(d) == d.access_token # None \/ d.refresh_token # None \/ d.error # None

refresh_calls(client_id, refresh_token) ==
    IF client_id = "" \/ refresh_token = "" THEN 0 ELSE 1

refresh_tesla_token(client_id, refresh_token, ans) ==
    IF client_id = "" \/ refresh_token = "" THEN None
    ELSE IF ans.kind = "raise" THEN None
    ELSE IF ans.status = 200
         THEN IF ans.kind = "json" THEN Some(ans.body) ELSE None
         ELSE None

\* headers = {"Authorization": authorization, **kwargs.pop("headers", {})}
FirstHeaders(authorization, kw_headers) ==
    [Authorization |-> IF kw_headers.Authorization # None
                       THEN kw_headers.Authorization[1] ELSE authorization]

\* Variant of RetryHeaders that sends the headers of the first request again.
RetryHeaders_stale(headers, tokens) == headers

RetryHeaders(headers, tokens) ==
    [headers EXCEPT !.Authorization = "Bearer " \o tokens.access_token[1]]

\* Whether tesla_request goes on to refresh, and to send again.
Refreshes(refresh_token, first) ==
    first.kind # "raise" /\ first.status = 401 /\ refresh_token # ""

Retries(client_id, refresh_token, first, refAns) ==
    /\ Refreshes(refresh_token, first)
    /\ LET tokens == refresh_tesla_token(client_id, refresh_token, refAns)
       IN  tokens # None /\ TruthyDict(tokens[1]) /\ TruthyStr(tokens[1].access_token)

tesla_request(client_id, refresh_token, first, refAns, second) ==
    IF first.kind = "raise" THEN Raised
    ELSE IF Retries(client_id, refresh_token, first, refAns)
    THEN IF second.kind = "raise" THEN Raised
         ELSE Returned([r |-> second,
                        tokens |-> refresh_tesla_token(client_id, refresh_token, refAns)])
    ELSE Returned([r |-> first, tokens |-> None])

TeslaExchanges(a, first, refAns, second) ==
    LET headers == FirstHeaders(a.authorization, a.headers)
    IN  <<[to |-> "tesla",
           request |-> [method |-> a.method, path |-> a.path, headers |-> headers],
           answer |-> first]>>
        \o (IF Refreshes(a.refresh_token, first)
               /\ refresh_calls(a.TESLA_CLIENT_ID, a.refresh_token) = 1
            THEN <<[to |-> "tesla-auth",
                    request |-> [grant_type |-> "refresh_token",
                                 client_id |-> a.TESLA_CLIENT_ID,
                                 refresh_token |-> a.refresh_token],
                    answer |-> refAns]>>
            ELSE << >>)
        \o (IF Retries(a.TESLA_CLIENT_ID, a.refresh_token, first, refAns)
            THEN <<[to |-> "tesla",
                    request |-> [method |-> a.method, path |-> a.path,
                                 headers |-> RetryHeaders(headers, refAns.body)],
                    answer |-> second]>>
            ELSE << >>)

\* The arguments of a call, with the TESLA_CLIENT_ID of the environment.
TeslaArgs ==
    {[method |-> "GET", path |-> "/vehicles", authorization |-> "Bearer at1",
      refresh_token |-> rt, headers |-> [Authorization |-> h],
      TESLA_CLIENT_ID |-> cid] :
        rt \in {"", "rt1"}, h \in {None, Some("Bearer at0")}, cid \in {"", "client"}}

CallTesla ==
    /\ endpoint = "tesla_request" /\ pc = "start"
    /\ \E first \in TeslaAnswers :
       \E refAns \in AnswersIf(Refreshes(args.refresh_token, first)
                                  /\ refresh_calls(args.TESLA_CLIENT_ID, args.refresh_token) = 1,
                               RefreshAnswers, NoRefreshAnswer) :
       \E second \in AnswersIf(Retries(args.TESLA_CLIENT_ID, args.refresh_token, first, refAns),
                               TeslaAnswers, NoTeslaAnswer) :
       /\ result' = Some(tesla_request(args.TESLA_CLIENT_ID, args.refresh_token,
                                       first, refAns, second))
       /\ sent' = TeslaExchanges(args, first, refAns, second)
    /\ pc' = "done"
    /\ UNCHANGED <<reqVars, routeVars, fanVars, orderVars, twiceVars, args,
                   response, stub, calls>>

InitCalls ==
    /\ \/ endpoint = "get_directions" /\ args \in DirectionsArgs
       \/ endpoint = "geocode" /\ args \in GeocodeArgs
       \/ endpoint = "search_places_along_route" /\ args \in SearchArgs
       \/ endpoint = "tesla_request" /\ args \in TeslaArgs
    /\ body = None
    /\ \E kc \in KeyConfigs : x_google_maps_key = kc.hdr /\ GOOGLE_KEY_ENV = kc.env
    /\ deterministic = FALSE
    /\ stub = NoStub
    /\ run = 1
    /\ first_response = None
    /\ pc = "start"
    /\ i = 0
    /\ resolved_stops = << >>
    /\ pending = {}
    /\ gathered = << >>
    /\ directions = None
    /\ current_time = 0
    /\ scheduled = FALSE
    /\ response = None
    /\ calls = NoCalls
    /\ stops = << >>
    /\ origin_coords = None
    /\ remaining = << >>
    /\ ordered = << >>
    /\ cur = None
    /\ sent = << >>
    /\ result = None

NextCalls ==
    \/ CallDirections
    \/ CallGeocode
    \/ CallSearch
    \/ CallTesla

SpecCalls == InitCalls /\ [][NextCalls]_vars

-----------------------------------------------------------------------------
(* Properties of the helpers.                                              *)

Called(fn) == endpoint = fn /\ pc = "done"

\* C15: the computeRoutes request carries avoidHighways exactly when scenic
\* or avoidHighways is set, avoidTolls exactly when avoidTolls is set and
\* avoidFerries exactly when avoidFerries is set, for each of the sixteen
\* flag combinations; without preferences it carries no modifier.
C15_PreferenceMapping ==
    (Called("get_directions") /\ sent # << >>)
        => LET mods == sent[1].request.routeModifiers
               p    == args.prefs
           IN  IF p = None THEN mods = {}
               ELSE /\ ("avoidHighways" \in mods) <=> (p[1].scenic \/ p[1].avoidHighways)
                    /\ ("avoidTolls" \in mods) <=> p[1].avoidTolls
                    /\ ("avoidFerries" \in mods) <=> p[1].avoidFerries
                    /\ mods \subseteq {"avoidHighways", "avoidTolls", "avoidFerries"}

C15_Witness ==
    /\ Called("get_directions") /\ sent # << >>
    /\ args.prefs = Some(RoutePreferences(TRUE, FALSE, FALSE, FALSE))
    /\ sent[1].request.routeModifiers = {"avoidHighways"}

\* The exchanges with the places provider that carry a radius.
BiasedSearches ==
    {k \in 1..Len(sent) : sent[k].to = "places" /\ sent[k].request.biased}

\* The corridor endpoints of a biased search: the coordinates geocode()
\* returned for the two points, read from the exchanges before it.
EndpointOf(address) ==
    LET k == CHOOSE j \in 1..Len(sent) :
                 /\ sent[j].to \in {"google", "nominatim"}
                 /\ sent[j].request = address
                 /\ \A h \in (j + 1)..Len(sent) :
                        sent[h].to \in {"google", "nominatim"}
                            => sent[h].request # address
        a == sent[k].answer
    IN  IF sent[k].to = "google" THEN a.results[1]
        ELSE Coord(a.results[1].lat, a.results[1].lon)

\* C16: the radius of a biased place search is an integer from 5000 to
\* 50000: 5000 when 55500 times the degree distance of the two endpoints is
\* below 5000, 50000 when it is 50000 or more, else its integer part.
\* Coordinates being hundredths of a degree, 55500 times the distance is
\* the square root of 308025 * (dlat^2 + dlng^2).
C16_RadiusClamp ==
    Called("search_places_along_route")
        => \A k \in BiasedSearches :
              LET r  == sent[k].request.radius
                  pa == IF TruthyStr(args.prev_stop_addr) THEN args.prev_stop_addr[1]
                        ELSE args.origin_addr
                  pb == IF TruthyStr(args.next_stop_addr) THEN args.next_stop_addr[1]
                        ELSE args.destination_addr
                  a  == EndpointOf(pa)
                  b  == EndpointOf(pb)
                  n  == Wide(308025, (a.lat - b.lat) * (a.lat - b.lat)
                                     + (a.lng - b.lng) * (a.lng - b.lng))
              IN  /\ r \in 5000..50000
                  /\ IF ~ WideLeq(Wide(5000, 5000), n) THEN r = 5000
                     ELSE IF WideLeq(Wide(50000, 50000), n) THEN r = 50000
                     ELSE WideLeq(Wide(r, r), n) /\ ~ WideLeq(Wide(r + 1, r + 1), n)

C16_Witness ==
    /\ Called("search_places_along_route")
    /\ \E k \in BiasedSearches : sent[k].request.radius = 5000
    /\ args.prev_stop_addr = None

\* get_directions returned a DirectionsResult.
GotDirections ==
    /\ Called("get_directions")
    /\ ~ result[1].exc /\ result[1].val # None

DirectionsResult == result[1].val[1]
ProviderLegsSent == sent[1].answer.routes[1].legs

\* The provider's "<n>s" as a number of seconds.
SecondsOf(duration) == IntOfDigits(SubSeq(duration, 1, Len(duration) - 1))

RECURSIVE SumOf(_)
SumOf(seq) == IF seq = << >> THEN 0 ELSE Head(seq) + SumOf(Tail(seq))

\* C17: every leg's duration_min is the provider's seconds floor-divided by
\* 60, and total_duration_min is the sum of the legs' duration_min.
C17_DurationSums ==
    GotDirections
        => LET d == DirectionsResult
           IN  /\ Len(d.legs) = Len(ProviderLegsSent)
               /\ \A j \in 1..Len(d.legs) :
                      d.legs[j].duration_min
                          = SecondsOf(ProviderLegsSent[j].duration) \div 60
               /\ d.total_duration_min
                      = SumOf([j \in 1..Len(d.legs) |-> d.legs[j].duration_min])

\* Two legs of 59 s and 119 s: 1 minute in total, where the summed seconds
\* would give 2.
C17_Witness ==
    /\ GotDirections
    /\ Len(ProviderLegsSent) = 2
    /\ SumOf([j \in 1..2 |-> SecondsOf(ProviderLegsSent[j].duration)]) = 178
    /\ DirectionsResult.total_duration_min = 1

\* Distances are in tenths of a kilometre.
LegKmSum == SumOf([j \in 1..Len(DirectionsResult.legs) |->
                      DirectionsResult.legs[j].distance_km])
MetresSum == SumOf([j \in 1..Len(ProviderLegsSent) |->
                       ProviderLegsSent[j].distanceMeters])

\* C18: total_distance_km is the sum of the distance_km values of the legs
\* of the same result.
C18_TotalIsLegSum ==
    GotDirections => DirectionsResult.total_distance_km = LegKmSum

\* C18, as the code has it: total_distance_km is the sum of the provider's
\* metres rounded to 0.1 km once, which is within 0.05 km per leg, plus
\* 0.05 km, of the sum of the legs' distance_km.
C18_TotalIsRoundedSum ==
    GotDirections
        => LET t == DirectionsResult.total_distance_km
           IN  /\ 100 * t - 50 <= MetresSum /\ MetresSum < 100 * t + 50
               /\ 2 * (t - LegKmSum) <= Len(DirectionsResult.legs) + 1
               /\ 2 * (LegKmSum - t) <= Len(DirectionsResult.legs) + 1

\* Two legs of 1045 m: 1.0 km each, 2.1 km in total.
C18_Witness ==
    /\ GotDirections
    /\ Len(DirectionsResult.legs) = 2
    /\ LegKmSum = 20
    /\ DirectionsResult.total_distance_km = 21

-----------------------------------------------------------------------------
(* Properties of /route: outbound calls.                                   *)

\* The number of stops of the request that phase 1 searches a place for.
SearchedCount == Cardinality({k \in 1..Len(body.stops) : Searched(body.stops[k])})

\* How many geocode() invocations one step of the handler makes at most:
\* two for the corridor endpoints of a searched stop, one for a stop of the
\* backfill phase.
GeocodesOfStep == IF pc = "resolve" THEN 2 ELSE IF pc = "geocode" THEN 1 ELSE 0

\* C19: no outbound call is repeated.  One geocode() calls each geocoding
\* provider at most once; one /route request calls the directions provider
\* at most once and the places provider at most once per searched stop,
\* whatever the calls return.
C19_NoRetries ==
    /\ [](Routing => /\ calls.directions <= 1
                     /\ calls.places <= SearchedCount
                     /\ calls.google <= Len(body.stops) + 2 * SearchedCount
                     /\ calls.nominatim <= Len(body.stops) + 2 * SearchedCount)
    /\ [][Routing => /\ calls'.google <= calls.google + GeocodesOfStep
                     /\ calls'.nominatim <= calls.nominatim + GeocodesOfStep
                     /\ calls'.places <= calls.places + 1
                     /\ calls'.directions <= calls.directions + 1]_vars

\* A request whose place search and whose directions both came back empty:
\* each was called once, and each geocoder three times (the two corridor
\* endpoints and the stop, Google finding nothing every time).
C19_Witness ==
    /\ Routing /\ Answered(200)
    /\ Len(body.stops) = 1 /\ Searched(body.stops[1])
    /\ out[1].stopType = "search"
    /\ response[1].directions = None
    /\ calls = [google |-> 3, nominatim |-> 3, places |-> 1, directions |-> 1]

-----------------------------------------------------------------------------
(* Properties of geocode.                                                  *)

\* The exchanges of the call with one provider.
ExchangesWith(provider) == {k \in 1..Len(sent) : sent[k].to = provider}

\* The primary answered OK with a result; the secondary answered a result.
PrimaryFound(a) == a.kind = "json" /\ a.status = "OK" /\ a.results # << >>
PrimaryEmpty(a) == a.kind = "json" /\ ~ (a.status = "OK" /\ a.results # << >>)
SecondaryFound(a) == a.kind = "json" /\ a.results # << >>

\* C20: with a key the primary provider is called first; the secondary is
\* called only without a key or after a non-OK or empty primary answer.
\* geocode returns the primary's coordinate when the primary found one,
\* else the secondary's when the secondary found one, and None only when
\* every provider it called found nothing.
C20_GeocoderChain ==
    Called("geocode")
        => /\ gkey # "" => (sent # << >> /\ sent[1].to = "google")
           /\ gkey = "" => ExchangesWith("google") = {}
           /\ \A k \in ExchangesWith("nominatim") :
                  \/ gkey = ""
                  \/ (k = 2 /\ PrimaryEmpty(sent[1].answer))
           /\ \A k \in ExchangesWith("google") :
                  PrimaryFound(sent[k].answer)
                      => result = Some(Returned(Some(sent[k].answer.results[1])))
           /\ \A k \in ExchangesWith("nominatim") :
                  SecondaryFound(sent[k].answer)
                      => result = Some(Returned(Some(
                             Coord(sent[k].answer.results[1].lat,
                                   sent[k].answer.results[1].lon))))
           /\ result = Some(Returned(None))
                  => \A k \in 1..Len(sent) :
                         IF sent[k].to = "google" THEN ~ PrimaryFound(sent[k].answer)
                         ELSE ~ SecondaryFound(sent[k].answer)

\* With a key, the primary refused (a non-OK status) and the secondary
\* found the address.
C20_Witness ==
    /\ Called("geocode") /\ gkey # ""
    /\ Len(sent) = 2
    /\ sent[1].answer.status = "OVER_QUERY_LIMIT"
    /\ SecondaryFound(sent[2].answer)
    /\ result = Some(Returned(Some(Coord(sent[2].answer.results[1].lat,
                                         sent[2].answer.results[1].lon))))

-----------------------------------------------------------------------------
(* Properties of /route and /route/optimize-order: frame and ordering.     *)

OrderJoined ==
    Reordering /\ Len(body.stops) > 2 /\ pc \notin {"start", "geocode"}

RequestThrough(list) ==
    DirectionsBody(origin, list[Len(list)].address,
                   [k \in 1..(Len(list) - 1) |-> list[k].address], prefs)

\* C23: the directions call is issued only when phase 1 has appended a stop
\* for every stop of the request (none of them left to search) and every
\* geocode task of the backfill has completed; its request goes through the
\* addresses of the resolved stops; and the scheduler starts only once the
\* directions call has returned a result.
C23_PhasesOrdered ==
    Routing
        => /\ calls.directions = 1
                  => /\ pc \in {"attach", "schedule", "respond", "done"}
                     /\ Len(resolved_stops) = Len(body.stops)
                     /\ pending = {}
                     /\ \E p \in stub.directions : p[1] = RequestThrough(resolved_stops)
           /\ pc \in {"start", "resolve", "geocode", "directions"}
                  => calls.directions = 0 /\ ~ scheduled
           /\ scheduled => calls.directions = 1 /\ directions # None

\* The scheduler ran after a directions call whose destination is the
\* address the place search found for the last stop, not the request's.
C23_Witness ==
    /\ Routing /\ Answered(200) /\ scheduled
    /\ out[Len(out)].stopType = "resolved"
    /\ out[Len(out)].address # body.stops[Len(out)].address
    /\ \E p \in stub.directions : p[1].destination = out[Len(out)].address

\* C24: a stop of type specific comes out of /route with the address, the
\* label, the notes and the stopType of the request, whatever the other
\* stops are and whatever the providers answer; and no more places calls
\* are issued than there are stops to search, none for a specific stop.
C24_SpecificPassThrough ==
    Routing
        => /\ calls.places <= SearchedCount
           /\ (response # None /\ Answered(200))
                  => \A k \in 1..Len(body.stops) :
                         body.stops[k].stopType = "specific"
                             => /\ out[k].address = body.stops[k].address
                                /\ out[k].label = body.stops[k].label
                                /\ out[k].notes = body.stops[k].notes
                                /\ out[k].stopType = "specific"

\* A specific stop next to a search stop that was resolved, with a key: the
\* one places call is the search stop's.
C24_Witness ==
    /\ Routing /\ Answered(200) /\ Len(out) = 2
    /\ body.stops[1].stopType = "specific"
    /\ out[1].address = body.stops[1].address
    /\ out[2].stopType = "resolved"
    /\ calls.places = 1

\* C25: the computeRoutes request starts at the origin of the request, or
\* at the address of its first stop when it has none, goes through the
\* addresses of all resolved stops but the last in request order and ends
\* at the last one's; in a 200 answer with directions, stop k carries the
\* minutes of leg k and its distance in metres (the leg's kilometres times
\* 1000, cut to an integer: the tenth-of-a-kilometre value times 100, or one
\* metre less where the float product falls short), and a stop that has no
\* leg at its index carries neither.
C25_DirectionsRequestAndLegs ==
    Routing
        => /\ (calls.directions = 1 /\ pc \in {"attach", "schedule", "respond", "done"})
                  => \E p \in stub.directions :
                         /\ p[1].origin = IF body.origin # None THEN body.origin[1]
                                          ELSE body.stops[1].address
                         /\ Len(p[1].intermediates) = Len(resolved_stops) - 1
                         /\ \A k \in 1..Len(p[1].intermediates) :
                                p[1].intermediates[k] = resolved_stops[k].address
                         /\ p[1].destination = resolved_stops[Len(resolved_stops)].address
           /\ (response # None /\ Answered(200) /\ response[1].directions # None)
                  => LET legs == response[1].directions[1].legs
                     IN  \A k \in 1..Len(out) :
                            IF k <= Len(legs)
                            THEN /\ out[k].driveMinutesFromPrev = Some(legs[k].duration_min)
                                 /\ out[k].distanceMeters \in
                                        {Some(100 * legs[k].distance_km),
                                         Some(100 * legs[k].distance_km - 1)}
                            ELSE /\ out[k].driveMinutesFromPrev = None
                                 /\ out[k].distanceMeters = None

\* A request without an origin answered with one leg per stop.
C25_Witness ==
    /\ Routing /\ Answered(200) /\ response[1].directions # None
    /\ body.origin = None /\ Len(out) = 2
    /\ Len(response[1].directions[1].legs) = 2
    /\ out[1].driveMinutesFromPrev = Some(30)
    /\ out[2].driveMinutesFromPrev = Some(1)
    /\ \E p \in stub.directions : p[1].origin = body.stops[1].address

\* The reorder of more than 2 stops with nothing to start from: no origin
\* that geocodes and a first stop left without coordinates.
NoAnchor ==
    /\ Reordering /\ response # None /\ Answered(200)
    /\ Len(body.stops) > 2
    /\ NoOriginPoint
    /\ ~ Known(stops[1])

\* C26: without an anchor the reorder answers with the stops of the
\* request, same order and same field values, also for the stops the
\* geocoder located.
C26_AbortUnmodified == NoAnchor => out = body.stops

\* C26, as the code has it: without an anchor the reorder answers with the
\* stops in request order, each with the fields of the request except that
\* a stop the geocoder located carries the latitude and longitude found.
C26_AbortKeepsOrder ==
    NoAnchor
        => /\ Len(out) = Len(body.stops)
           /\ \A k \in 1..Len(out) :
                  LET own == World(body.stops[k].address)
                  IN  out[k] = IF own = None THEN body.stops[k]
                               ELSE [body.stops[k] EXCEPT
                                        !.latitude = Some(own[1].lat),
                                        !.longitude = Some(own[1].lng)]

\* No anchor, and a later stop that the geocoder located.
C26_Witness ==
    /\ NoAnchor
    /\ \E k \in 2..Len(out) :
          /\ body.stops[k].latitude = None
          /\ HasCoords(out[k])

\* The exchanges of one call with the Fleet API, in the order sent.
TeslaSends == ExchangesWith("tesla")

\* C27: one call of tesla_request sends the upstream request once or twice
\* and asks for new tokens at most once; a second send follows a first
\* answer of 401, a supplied refresh token and a refresh that answered with
\* an access token, and carries that token; a call that returns hands back
\* the new tokens with the second answer exactly when it sent twice, and
\* the first answer with no tokens otherwise.
C27_OneRetry ==
    Called("tesla_request")
        => /\ Cardinality(TeslaSends) \in {1, 2}
           /\ Cardinality(ExchangesWith("tesla-auth")) <= 1
           /\ sent[1].to = "tesla"
           /\ Cardinality(TeslaSends) = 2
                 => /\ Len(sent) = 3
                    /\ sent[1].answer.kind = "status" /\ sent[1].answer.status = 401
                    /\ args.refresh_token # ""
                    /\ sent[2].to = "tesla-auth"
                    /\ sent[2].answer.kind = "json" /\ sent[2].answer.status = 200
                    /\ TruthyStr(sent[2].answer.body.access_token)
                    /\ sent[3].to = "tesla"
                    /\ sent[3].request.headers.Authorization
                          = "Bearer " \o sent[2].answer.body.access_token[1]
                    /\ sent[3].request.method = sent[1].request.method
                    /\ sent[3].request.path = sent[1].request.path
           /\ ~ result[1].exc
                 => IF Cardinality(TeslaSends) = 2
                    THEN /\ result[1].val.tokens = Some(sent[2].answer.body)
                         /\ result[1].val.r = sent[3].answer
                    ELSE /\ result[1].val.tokens = None
                         /\ result[1].val.r = sent[1].answer

\* A call that was answered 401, refreshed, sent again under the new token
\* in place of the one it was given, and returned the new tokens.
C27_Witness ==
    /\ Called("tesla_request")
    /\ Cardinality(TeslaSends) = 2
    /\ ~ result[1].exc
    /\ result[1].val.tokens # None
    /\ sent[3].request.headers.Authorization = "Bearer at2"
    /\ sent[1].request.headers.Authorization # "Bearer at2"

\* C28: POST /optimize answers a request as POST /route answers the same
\* request sent without a key header: same status, stops and directions.
C28_LegacyAsRoute ==
    (endpoint = "optimize" /\ response # None) => response = first_response

\* How often an id occurs among the stops of a list.
Occurrences(list, id) == Cardinality({k \in 1..Len(list) : list[k].id = id})

VisitStartGiven == current_time' - resolved_stops[i].dwellMinutes

\* C30: the scheduler's clock never moves backwards.  Each stop's visit
\* starts no earlier than the clock the previous stop left (its visit start
\* plus its dwell time, 08:00 before the first stop) and no earlier than
\* the stop's own opening time, and is the arrival time the stop is given.
C30_ClockMonotone ==
    [][(/\ pc = "schedule" /\ i' = i + 1
        /\ \A k \in 1..Len(resolved_stops) : resolved_stops[k].dwellMinutes >= 0)
          => /\ VisitStartGiven >= current_time
             /\ VisitStartGiven >= OpenMin(resolved_stops[i])
             /\ current_time' >= current_time
             /\ resolved_stops'[i].estimatedArrival
                   = Some(minutes_to_time(VisitStartGiven))]_vars

\* A scheduled route of two stops in which the second visit waited for the
\* window to open after a drive, and the first did not wait.
C30_Witness ==
    /\ scheduled /\ Answered(200) /\ Len(out) = 2
    /\ DriveOf(out[2]) > 0
    /\ TruthyStr(out[2].openTime)
    /\ out[2].estimatedArrival = Some(minutes_to_time(OpenMin(out[2])))
    /\ current_time = OpenMin(out[2]) + out[2].dwellMinutes
    /\ out[1].estimatedArrival # Some(minutes_to_time(OpenMin(out[1])))

====
